---- MODULE Spec2Model ----
(***************************************************************************)
(* Verification model of polymarket-hunter (src/polymarket_hunter).       *)
(*                                                                         *)
(* The subsystems are modelled each with its own specification:           *)
(*   SpecActor  - MarketActor.post / MarketActor._run                      *)
(*   SpecStore  - RedisOrderRequestStore (add, update, remove, cleanup)    *)
(*   SpecOrders - StrategyEvaluator.evaluate + OrderService.execute_order  *)
(*   SpecExit   - StrategyEvaluator.should_exit applied to drawn arguments  *)
(*   SpecTrades - RedisTradeRecordStore + TradeHandler + TradeResolverTask *)
(*                + TradeService.serve                                     *)
(* Prices are integers in thousandths (850 = 0.850), times are seconds.    *)
(***************************************************************************)
EXTENDS Integers, Sequences, FiniteSets, TLC

VARIABLES
    \* ---- MarketActor (market_actor.py) ----
    mailbox,      \* deque of envelope ids, newest last
    last_seq,     \* watermark, NoneSeq while unset
    tick_due,     \* asyncio.Event
    actorPc,      \* position of _run: "waiting" | "sleeping" | "dispatching"
    posts,        \* history: timestamp of the i-th envelope handed to post()
    cuts,         \* history: number of posts made when the k-th tick read the mailbox
    dispatched,   \* history: envelope ids handed to router.dispatch, in order
    \* ---- RedisOrderRequestStore (order_request_store.py) ----
    active_set,   \* Redis set hunter:order_requests
    docs,         \* Redis strings hunter:order_requests:doc:{key}; <<>> = absent
    orderEvents,  \* messages on hunter:order_requests:events not yet consumed
    cl,           \* position and locals of a running cleanup_stale_pointers
    lastOp,       \* the last completed operation with its inputs and result
    ordersSub,    \* OrdersSubscriber._run: "listening" or "backoff"
    \* ---- RedisTradeRecordStore (trade_record_store.py) ----
    trade_set,    \* Redis set hunter:trade_records
    trade_docs,   \* Redis strings hunter:trade_records:doc:{key}; <<>> = absent
    tradeEvents,  \* messages on hunter:trade_records:events not yet consumed
    snapshots,    \* TradeSnapshot rows written by TradeService.serve, in order
    redeemed,     \* number of uuid4 order ids drawn by the trade resolver
    touched,      \* keys of the stored trade records, least recently written first
    \* ---- KalmanTrend (tend_detector.py) ----
    kalman,       \* per key: <<>> before the first update, else _ts, _t_ema, _dir
                  \* and the direction update last returned for the key
    \* ---- PriceChangeHandler (price_handler.py) ----
    price_map,    \* _price_map: per market, the asset books in insertion order
    emitted,      \* the MarketContext last built, <<>> before the first
    \* ---- MarketWSClient (market_ws_client.py) ----
    ws_markets,   \* self.markets, a market standing for its slug
    ctx_markets,  \* self.ctx.markets
    assets_ids,   \* self._assets_ids
    restart,      \* self._restart (asyncio.Event)
    ws_ref,       \* self._ws: "none" or "conn"
    conn,         \* the connection last opened: state "none" | "open" | "closed", close code
    ws_pc,        \* position of _run: "connect" | "pump" | "closing" | "sleep"
    backoff,      \* local backoff of _run, seconds
    ws_frame,     \* assets_ids of the subscription frame last sent since the latest
                  \* update_slugs call, <<>> while there is none
    \* ---- MessageRouter (handlers.py) ----
    router_event, \* event_type of the message of the latest dispatch; "" before the first
    router_i,     \* index of the handler the loop of dispatch is at; 0 before the first
    invoked,      \* the handle calls of the latest dispatch with their outcomes
    \* ---- OrdersSubscriber._run, TradesSubscriber._run ----
    sub_pc,       \* per subscriber: "listening" | "sleeping" | "done"
    sub_backoff,  \* per subscriber: local backoff of _run, tenths of a second
    sub_clean,    \* per subscriber: an event was handled without error since the
                  \* latest failure (or since the start)
    \* ---- RedisSlugStore (slug_store.py), SlugsSubscriber (slug_subscriber.py) ----
    slug_store,   \* Redis set hunter:slugs
    slugEvents,   \* messages on hunter:slugs:events not yet consumed
    mgr_slugs,    \* SlugsSubscriber._slugs
    mgr_pc,       \* "created" | "started" (start returned) | "running" (subscribed)
    ws_updates,   \* the lists passed to MarketWSClient.update_slugs, in order
    slug_ops,     \* number of add_slug / remove_slug calls made
    \* ---- MarketWSClient.stop, ActorManager.stop_all, MarketActor.stop ----
    ing_stop,     \* position of stop(): "running" (not called) | "cancelling" (run
                  \* task cancelled, awaited) | "closed" (connection closed, stop_all
                  \* entered) | "stopped" (stop has returned)
    actor_running,\* MarketActor._running
    actor_task    \* MarketActor._task: "alive" | "cancelling" | "done"

actorVars == <<mailbox, last_seq, tick_due, actorPc, posts, cuts, dispatched>>
storeVars == <<active_set, docs, orderEvents, cl, ordersSub>>
tradeVars == <<trade_set, trade_docs, tradeEvents, snapshots, redeemed, touched>>
feedVars == <<kalman, price_map, emitted>>
routerVars == <<router_event, router_i, invoked>>
wsVars == <<ws_markets, ctx_markets, assets_ids, restart, ws_ref, conn, ws_pc, backoff, ws_frame>>

subVars == <<sub_pc, sub_backoff, sub_clean>>
\* The subsystems outside the ingest and trading paths.
slugVars == <<slug_store, slugEvents, mgr_slugs, mgr_pc, ws_updates, slug_ops>>
stopVars == <<ing_stop, actor_running, actor_task>>
auxVars == <<subVars, slugVars, stopVars>>

vars == <<actorVars, storeVars, lastOp, tradeVars, feedVars, wsVars, routerVars, auxVars>>

(***************************************************************************)
(* Generic helpers                                                         *)
(***************************************************************************)
Last(s) == s[Len(s)]

(***************************************************************************)
(* MarketActor                                                             *)
(***************************************************************************)
\* Bounds of the actor model.
MaxPosts == 4
\* max_mailbox constructor parameter (256 by default), instantiated small so
\* that the deque overflows within MaxPosts posts.
MaxMailbox == 3

Timestamps == {100, 110, 120}
NoneSeq == -1

ActorInit ==
    /\ mailbox = <<>>
    /\ last_seq = NoneSeq
    /\ tick_due = FALSE
    /\ actorPc = "waiting"
    /\ posts = <<>>
    /\ cuts = <<>>
    /\ dispatched = <<>>

\* Mutant of DequeAppend: a deque without maxlen.
DequeAppendUnbounded(q, e) == Append(q, e)

\* deque(maxlen=max_mailbox).append: the oldest entry falls out when full.
DequeAppend(q, e) ==
    IF Len(q) >= MaxMailbox THEN Append(Tail(q), e) ELSE Append(q, e)

\* Mutant of IsStale: strict comparison, an equal timestamp is let through.
IsStaleStrict(ts, seq) == seq # NoneSeq /\ ts < seq

\* The stale test of post().
IsStale(ts, seq) == seq # NoneSeq /\ ts <= seq

\* Mutant of Post: the envelope is appended but the tick event is not set.
PostWithoutWake(ts) ==
    /\ Len(posts) < MaxPosts
    /\ posts' = Append(posts, ts)
    /\ IF IsStale(ts, last_seq)
         THEN UNCHANGED mailbox
         ELSE mailbox' = DequeAppend(mailbox, Len(posts) + 1)
    /\ UNCHANGED <<last_seq, tick_due, actorPc, cuts, dispatched>>

\* MarketActor.post(env)
Post(ts) ==
    /\ Len(posts) < MaxPosts
    /\ posts' = Append(posts, ts)
    /\ IF IsStale(ts, last_seq)
         THEN UNCHANGED <<mailbox, tick_due>>
         ELSE /\ mailbox' = DequeAppend(mailbox, Len(posts) + 1)
              /\ tick_due' = TRUE
    /\ UNCHANGED <<last_seq, actorPc, cuts, dispatched>>

\* _run: await self._tick_due.wait() returns, the coalescing sleep starts.
ActorWake ==
    /\ actorPc = "waiting"
    /\ tick_due
    /\ actorPc' = "sleeping"
    /\ UNCHANGED <<mailbox, last_seq, tick_due, posts, cuts, dispatched>>

\* Mutant of NewestOf: the tick reads the oldest entry.
OldestOf(q) == Head(q)

\* The envelope a tick reads: mailbox[-1].
NewestOf(q) == Last(q)

\* _run: the sleep ends; clear the event, read the newest envelope, advance
\* the watermark and call router.dispatch (no suspension point in between).
ActorTick ==
    /\ actorPc = "sleeping"
    /\ tick_due' = FALSE
    /\ cuts' = Append(cuts, Len(posts))
    /\ IF mailbox = <<>>
         THEN /\ actorPc' = "waiting"
              /\ UNCHANGED <<last_seq, dispatched>>
         ELSE /\ last_seq' = posts[NewestOf(mailbox)]
              /\ dispatched' = Append(dispatched, NewestOf(mailbox))
              /\ actorPc' = "dispatching"
    /\ UNCHANGED <<mailbox, posts>>

\* _run: router.dispatch returns (or raises, which _run logs and swallows).
ActorDispatchDone ==
    /\ actorPc = "dispatching"
    /\ actorPc' = "waiting"
    /\ UNCHANGED <<mailbox, last_seq, tick_due, posts, cuts, dispatched>>

ActorNext ==
    \/ \E ts \in Timestamps : Post(ts)
    \/ ActorWake
    \/ ActorTick
    \/ ActorDispatchDone

(***************************************************************************)
(* Claims about MarketActor                                                *)
(***************************************************************************)
DispatchedIds == {dispatched[n] : n \in 1..Len(dispatched)}
DispatchedTs == [n \in 1..Len(dispatched) |-> posts[dispatched[n]]]
ActorSettled == actorPc = "waiting" /\ ~tick_due

\* The posts made between tick k-1 and tick k (the k-th coalescing window).
WindowLo(k) == IF k = 1 THEN 1 ELSE cuts[k - 1] + 1
Window(k) == WindowLo(k) .. cuts[k]
WindowIncreasing(k) == \A i, j \in Window(k) : i < j => posts[i] < posts[j]
\* The watermark in force while window k was posted.
WatermarkAt(k) ==
    IF k = 1 \/ k - 1 > Len(dispatched) THEN NoneSeq ELSE posts[dispatched[k - 1]]
WindowFresh(k) == Window(k) # {} /\ ~IsStale(posts[cuts[k]], WatermarkAt(k))

\* C5 (as claimed): when envelopes with timestamps 100, 120, 110 are posted in
\* that order, the ts=110 envelope is never dispatched under any interleaving
\* of the posts with the ticks, and once the actor has settled the dispatched
\* sequence is 100 then 120.
C5_StaleDropClaim ==
    (Len(posts) >= 3 /\ SubSeq(posts, 1, 3) = <<100, 120, 110>>) =>
        /\ 3 \notin DispatchedIds
        /\ (ActorSettled /\ Len(posts) = 3) => dispatched = <<1, 2>>

\* C6: a burst of envelopes with strictly increasing timestamps posted within
\* one coalescing window (and not stale against the watermark) causes exactly
\* one dispatch, of the last posted envelope; no earlier envelope of the burst
\* is dispatched by that tick or by any later one.
C6_BurstOneDispatch ==
    /\ Len(dispatched) = Len(cuts)
    /\ \A k \in 1..Len(cuts) :
          (WindowIncreasing(k) /\ WindowFresh(k)) =>
              /\ k <= Len(dispatched)
              /\ dispatched[k] = cuts[k]
              /\ \A i \in Window(k) \ {cuts[k]} : i \notin DispatchedIds

C6_Witness ==
    /\ Len(cuts) >= 2
    /\ Cardinality(Window(1)) >= 2
    /\ WindowIncreasing(1) /\ WindowFresh(1)
    /\ dispatched[1] = cuts[1]
    /\ ActorSettled

\* C7: the timestamps of successively dispatched envelopes are strictly
\* increasing, the watermark is the timestamp of the last dispatch (so it never
\* decreases or repeats), and of two envelopes with equal timestamps at most
\* one is dispatched.
C7_MonotonicDispatch ==
    /\ \A m, n \in 1..Len(dispatched) : m < n => DispatchedTs[m] < DispatchedTs[n]
    /\ last_seq = IF dispatched = <<>> THEN NoneSeq ELSE posts[Last(dispatched)]
    /\ \A i, j \in 1..Len(posts) :
          (i # j /\ posts[i] = posts[j]) => ~(i \in DispatchedIds /\ j \in DispatchedIds)

\* A duplicate timestamp arrived after its twin was dispatched, and a later
\* envelope was dispatched too.
C7_Witness ==
    /\ Len(dispatched) >= 2
    /\ ActorSettled
    /\ \E i, j \in 1..Len(posts) :
          /\ i < j /\ posts[i] = posts[j]
          /\ i = dispatched[1] /\ j > cuts[1]

\* C28: the actor dispatches each envelope at most once and never dispatches
\* an envelope that arrived before one it has already dispatched, although a
\* tick reads the newest mailbox entry and removes none: the dispatched
\* envelopes are in strictly increasing order of arrival.
C28_DispatchOnceInArrivalOrder ==
    \A m, n \in 1..Len(dispatched) : m < n => dispatched[m] < dispatched[n]

\* Two dispatches have happened and the envelope of the first is still in the
\* mailbox.
C28_Witness ==
    /\ Len(dispatched) >= 2
    /\ \E n \in 1..Len(mailbox) : mailbox[n] = dispatched[1]

\* C29: the mailbox never holds more than max_mailbox envelopes (256 as the
\* actors are built, MaxMailbox here); when an envelope is accepted while the
\* mailbox is full, the oldest envelope is discarded and the new one is kept
\* as the newest entry.
C29_BoundedNewestWins ==
    /\ [](Len(mailbox) <= MaxMailbox)
    /\ [][mailbox' # mailbox =>
            /\ Last(mailbox') = Len(posts')
            /\ Len(mailbox) < MaxMailbox => mailbox' = Append(mailbox, Len(posts'))
            /\ Len(mailbox) = MaxMailbox => mailbox' = Append(Tail(mailbox), Len(posts'))]_vars

\* The mailbox is full and its first envelope has been discarded.
C29_Witness == Len(mailbox) = MaxMailbox /\ mailbox[1] > 1

\* The envelopes in the mailbox.
InMailbox == {mailbox[n] : n \in 1..Len(mailbox)}

\* C27: no wake-up is lost: every envelope post() has accepted is eventually
\* dispatched, or an envelope that arrived after it is, whatever the
\* interleaving of posts with the steps of the actor task, provided the task
\* keeps running and each dispatch returns.
C27_NoLostWakeup ==
    \A i \in 1..MaxPosts :
        (i \in InMailbox) ~> (\E j \in i..MaxPosts : j \in DispatchedIds)

\* An envelope accepted after an earlier tick has been superseded: it was
\* never dispatched itself, a later one was.
C27_Witness ==
    /\ Len(dispatched) >= 2
    /\ \E i \in InMailbox :
          /\ i > dispatched[1]
          /\ i \notin DispatchedIds
          /\ \E j \in DispatchedIds : j > i

(***************************************************************************)
(* Data model                                                              *)
(***************************************************************************)
Markets == {"M"}
Outcomes == {"Up", "Down"}
AssetOf(o) == IF o = "Up" THEN "A_Up" ELSE "A_Down"
Assets == {AssetOf(o) : o \in Outcomes}
Sides == {"BUY", "SELL"}
OrderTypes == {"market", "limit"}
RequestSources ==
    {"Stop Loss", "Take Profit", "Strategy Enter", "Strategy Exit", "API Call"}
OppositeSide(s) == IF s = "BUY" THEN "SELL" ELSE "BUY"

\* StrategyAction; slippage, stop_loss and take_profit default to 0.05, 1, 1
\* and order_type to market.
StrategyAction(s, size, outcome, slippage, stop, tp, otype) ==
    [side |-> s, size |-> size, outcome |-> outcome, slippage |-> slippage,
     stop_loss |-> stop, take_profit |-> tp, order_type |-> otype]
DefaultAction(s, size, outcome) ==
    StrategyAction(s, size, outcome, 50, 1000, 1000, "market")

\* OrderRequest (tif, names, context and timestamps are not modelled).
OrderRequest(m, a, s, price, size, otype, source, action) ==
    [market_id |-> m, asset_id |-> a, side |-> s, price |-> price, size |-> size,
     order_type |-> otype, request_source |-> source, action |-> action]

\* _set_key / _doc_key: "{market_id}:{asset_id}:{side}"
SetKey(m, a, s) == <<m, a, s>>
KeyOf(o) == SetKey(o.market_id, o.asset_id, o.side)
Keys == {SetKey(m, a, s) : m \in Markets, a \in Assets, s \in Sides}

\* order.model_dump_json(): the JSON object of the request.
ModelDumpJson(o) == <<o>>
\* OrderRequest.model_validate_json(raw): pydantic rejects a document whose
\* enum fields hold no member of the enum.
Validates(raw) ==
    /\ Len(raw) = 1
    /\ raw[1].side \in Sides
    /\ raw[1].order_type \in OrderTypes
    /\ raw[1].request_source \in RequestSources
ModelValidateJson(raw) == raw[1]
NoDoc == <<>>

(***************************************************************************)
(* RedisOrderRequestStore                                                  *)
(***************************************************************************)
\* Bound: messages published and not yet consumed.
MaxEvents == 1

ClIdle == [pc |-> "idle", skeys |-> {}, stale |-> {}, after |-> "none"]
NoOp == [op |-> "none"]

StoreInit ==
    /\ active_set = {}
    /\ docs = [k \in Keys |-> NoDoc]
    /\ orderEvents = <<>>
    /\ cl = ClIdle
    /\ lastOp = NoOp
    /\ ordersSub = "listening"

\* _publish: Redis delivers the message to the connections subscribed at
\* that moment; q holds what the subscriber has received and not yet handled.
Publish(q, msg) == Append(q, msg)
PublishOrder(q, msg) == IF ordersSub = "listening" THEN Publish(q, msg) ELSE q

\* get(market_id, asset_id, side): none when the document is absent.
StoreGet(d, k) == d[k]
HasIntent(d, k) == StoreGet(d, k) # NoDoc

OrderState == [set |-> active_set, docs |-> docs, events |-> orderEvents]

\* Mutant of AddTo: the pipeline only SADDs, the document is not written.
AddToNoDoc(st, o) ==
    [set |-> st.set \cup {KeyOf(o)},
     docs |-> st.docs,
     events |-> PublishOrder(st.events,
                  [action |-> IF KeyOf(o) \in st.set THEN "update" ELSE "add",
                   key |-> KeyOf(o), order |-> ModelDumpJson(o)])]

\* Mutant of AddTo: the result of SADD is not looked at, every add publishes
\* "add".
AddToAlwaysAdd(st, o) ==
    [set |-> st.set \cup {KeyOf(o)},
     docs |-> [st.docs EXCEPT ![KeyOf(o)] = ModelDumpJson(o)],
     events |-> PublishOrder(st.events,
                  [action |-> "add", key |-> KeyOf(o), order |-> ModelDumpJson(o)])]

\* The effect of add(order) on <<set, docs, events>>: MULTI SADD + SET, then
\* publish add (SADD = 1) or update.
AddTo(st, o) ==
    [set |-> st.set \cup {KeyOf(o)},
     docs |-> [st.docs EXCEPT ![KeyOf(o)] = ModelDumpJson(o)],
     events |-> PublishOrder(st.events,
                  [action |-> IF KeyOf(o) \in st.set THEN "update" ELSE "add",
                   key |-> KeyOf(o), order |-> ModelDumpJson(o)])]

\* add(order)
StoreAdd(o) ==
    /\ Len(orderEvents) < MaxEvents
    /\ active_set' = AddTo(OrderState, o).set
    /\ docs' = AddTo(OrderState, o).docs
    /\ orderEvents' = AddTo(OrderState, o).events

\* update(order): SET the document, publish update; the set is not touched.
\* (order.touch() refreshes updated_ts, which is not modelled.)
StoreUpdate(o) ==
    /\ Len(orderEvents) < MaxEvents
    /\ docs' = [docs EXCEPT ![KeyOf(o)] = ModelDumpJson(o)]
    /\ orderEvents' = PublishOrder(orderEvents,
            [action |-> "update", key |-> KeyOf(o), order |-> ModelDumpJson(o)])
    /\ UNCHANGED active_set

\* remove(market_id, asset_id, side): MULTI SREM + DEL, publish remove if SREM > 0.
StoreRemove(k) ==
    /\ k \in active_set => Len(orderEvents) < MaxEvents
    /\ active_set' = active_set \ {k}
    /\ docs' = [docs EXCEPT ![k] = NoDoc]
    /\ orderEvents' = IF k \in active_set
                         THEN PublishOrder(orderEvents,
                                [action |-> "remove", key |-> k, order |-> NoDoc])
                         ELSE orderEvents

\* cleanup_stale_pointers, first await: SMEMBERS.
CleanupScan ==
    /\ cl.pc = "idle"
    /\ IF active_set = {}
         THEN /\ cl' = ClIdle
              /\ lastOp' = [op |-> "cleanup", removed |-> 0, after |-> lastOp.op,
                            had_doc |-> {}]
         ELSE /\ cl' = [pc |-> "scanned", skeys |-> active_set, stale |-> {},
                        after |-> lastOp.op]
              /\ UNCHANGED lastOp
    /\ UNCHANGED <<active_set, docs, orderEvents, ordersSub>>

\* cleanup_stale_pointers, second await: the EXISTS pipeline.
CleanupCheck ==
    /\ cl.pc = "scanned"
    /\ cl' = [cl EXCEPT !.pc = "checked",
                        !.stale = {k \in cl.skeys : docs[k] = NoDoc}]
    /\ UNCHANGED <<active_set, docs, orderEvents, lastOp, ordersSub>>

\* cleanup_stale_pointers, third await: SREM of the stale keys; returns the
\* number of members removed.
CleanupRemove ==
    /\ cl.pc = "checked"
    /\ active_set' = active_set \ cl.stale
    /\ lastOp' = [op |-> "cleanup",
                  removed |-> Cardinality(active_set \cap cl.stale),
                  after |-> cl.after,
                  had_doc |-> {k \in active_set \cap cl.stale : docs[k] # NoDoc}]
    /\ cl' = ClIdle
    /\ UNCHANGED <<docs, orderEvents, ordersSub>>

\* The subscriber of the events channel takes the next message.
SubscriberReceive ==
    /\ orderEvents # <<>>
    /\ orderEvents' = Tail(orderEvents)
    /\ UNCHANGED <<active_set, docs, cl, lastOp, ordersSub>>

\* Requests a client of the store passes in (the store is exercised on one
\* asset; the key does not influence any branch of the store).
StorePrices == {500, 850}
StoreRequests ==
    {OrderRequest("M", "A_Up", s, p, 5, "market", "API Call",
                  DefaultAction(s, 5, "Up")) :
        s \in Sides, p \in StorePrices}
StoreKeys == {KeyOf(o) : o \in StoreRequests}

\* A client calling the store sequentially: no call starts while
\* cleanup_stale_pointers is running.
StoreNext ==
    \/ \E o \in StoreRequests :
          /\ cl.pc = "idle" /\ StoreAdd(o)
          /\ lastOp' = [op |-> "add", key |-> KeyOf(o), order |-> o,
                        set_before |-> active_set, doc_before |-> docs[KeyOf(o)],
                        published |-> Last(orderEvents')]
          /\ UNCHANGED <<cl, ordersSub>>
    \/ \E o \in StoreRequests :
          /\ cl.pc = "idle" /\ StoreUpdate(o)
          /\ lastOp' = [op |-> "update", key |-> KeyOf(o)]
          /\ UNCHANGED <<cl, ordersSub>>
    \/ \E k \in StoreKeys :
          /\ cl.pc = "idle" /\ StoreRemove(k)
          /\ lastOp' = [op |-> "remove", key |-> k]
          /\ UNCHANGED <<cl, ordersSub>>
    \/ CleanupScan
    \/ CleanupCheck
    \/ CleanupRemove
    \/ SubscriberReceive

\* Clients call add and remove while cleanup_stale_pointers is between its
\* awaits.
CleanupNext ==
    \/ \E o \in StoreRequests :
          /\ StoreAdd(o)
          /\ lastOp' = [op |-> "add", key |-> KeyOf(o)]
          /\ UNCHANGED <<cl, ordersSub>>
    \/ \E k \in StoreKeys :
          /\ StoreRemove(k)
          /\ lastOp' = [op |-> "remove", key |-> k]
          /\ UNCHANGED <<cl, ordersSub>>
    \/ CleanupScan
    \/ CleanupCheck
    \/ CleanupRemove
    \/ SubscriberReceive

(***************************************************************************)
(* Claims about the order request store                                    *)
(***************************************************************************)
\* C1: every key of the active set has a document under doc:{key} that
\* parses, and cleanup_stale_pointers run right after an add removes nothing
\* and returns 0.
C1_ActiveSetHasDocs ==
    /\ \A k \in active_set :
          /\ docs[k] # NoDoc
          /\ Validates(docs[k])
          /\ KeyOf(ModelValidateJson(docs[k])) = k
    /\ (lastOp.op = "cleanup" /\ lastOp.after = "add") =>
          (lastOp.removed = 0 /\ active_set # {})

C1_Witness ==
    /\ lastOp.op = "cleanup" /\ lastOp.after = "add"
    /\ lastOp.removed = 0
    /\ active_set = StoreKeys

\* C36 (as claimed): after any interleaving of add, update and remove, a
\* document exists under doc:{key} only if key is in the active set.
C36_NoOrphanDocs == \A k \in Keys : docs[k] # NoDoc => k \in active_set

\* C37 (as claimed): cleanup_stale_pointers removes no member of the active
\* set whose document exists at the moment of the removal, also when an add
\* or remove of the same key runs between its existence check and its SREM.
C37_CleanupKeepsLiveKeys == lastOp.op = "cleanup" => lastOp.had_doc = {}

MaxTrades == 2
MaxTradeEvents == 2
MaxRedeems == 1

\* Order ids: exchange order ids <<"o", n>> and the resolver's uuid4 ids
\* <<"r", n>>, the n-th id drawn.
OrderIds == {<<"o", 1>>, <<"o", 2>>}
RedeemId(n) == <<"r", n>>
AllOrderIds == OrderIds \cup {RedeemId(n) : n \in 1..MaxRedeems}

TradeKey(m, a, s, oid) == <<m, a, s, oid>>
TradeKeyOf(r) == TradeKey(r.market_id, r.asset_id, r.side, r.order_id)
TradeKeys ==
    {TradeKey(m, a, s, oid) : m \in Markets, a \in Assets, s \in Sides, oid \in AllOrderIds}

TradeRecord(m, a, s, oid, matched, size, price, status, active, mts, tside) ==
    [market_id |-> m, asset_id |-> a, side |-> s, order_id |-> oid,
     matched_amount |-> matched, size |-> size, price |-> price, status |-> status,
     active |-> active, matched_ts |-> mts, trader_side |-> tside]

TradeInit ==
    /\ trade_set = {}
    /\ trade_docs = [k \in TradeKeys |-> NoDoc]
    /\ tradeEvents = <<>>
    /\ snapshots = <<>>
    /\ redeemed = 0
    /\ touched = <<>>

\* get(market_id, asset_id, side, order_id)
TradeGet(d, k) == d[k]

\* The effect of add(rec) on <<set, docs, events>>: MULTI SADD + SET, publish
\* add (SADD = 1) or update.  The message also carries the record just
\* written; the model keeps its action and key.
TradeAddTo(st, r) ==
    [set |-> st.set \cup {TradeKeyOf(r)},
     docs |-> [st.docs EXCEPT ![TradeKeyOf(r)] = <<r>>],
     events |-> Publish(st.events,
                  [action |-> IF TradeKeyOf(r) \in st.set THEN "update" ELSE "add",
                   key |-> TradeKeyOf(r)])]

\* str.upper() on the order statuses that occur.
Upper(x) == IF x = "matched" THEN "MATCHED" ELSE x

\* Python's "x or y" on numbers.
OrNum(x, y) == IF x # 0 THEN x ELSE y

\* Mutant of MergeTradeRecord: an existing record takes the matched amount and
\* the match time of every event.
MergeTradeRecordOverwrite(d, msg, order) ==
    LET k == TradeKey(msg.market, order.asset_id, order.side, order.order_id)
        status == IF Upper(order.status) # "" THEN Upper(order.status) ELSE msg.status
    IN  IF TradeGet(d, k) = NoDoc
          THEN TradeRecord(msg.market, order.asset_id, order.side, order.order_id,
                           order.matched_amount, msg.size * order.price, order.price,
                           status, TRUE, msg.match_time, msg.trader_side)
          ELSE [TradeGet(d, k)[1] EXCEPT !.matched_amount = order.matched_amount,
                                         !.status = status,
                                         !.trader_side = msg.trader_side,
                                         !.matched_ts = msg.match_time]
\* TradeHandler._merge_trade_record(market, msg, order) against the stored
\* documents d.  Prices are thousandths, so size_orig = msg.size * price.
MergeTradeRecord(d, msg, order) ==
    LET k == TradeKey(msg.market, order.asset_id, order.side, order.order_id)
        status == IF Upper(order.status) # "" THEN Upper(order.status) ELSE msg.status
        size_orig == msg.size * order.price
        size_mat == order.matched_amount
    IN  IF TradeGet(d, k) = NoDoc
          THEN TradeRecord(msg.market, order.asset_id, order.side, order.order_id,
                           size_mat, size_orig, order.price, status, TRUE,
                           msg.match_time, msg.trader_side)
          ELSE LET tr == TradeGet(d, k)[1]
                   new_matched == OrNum(size_mat, tr.matched_amount)
               IN  [tr EXCEPT !.matched_amount = new_matched,
                              !.status = status,
                              !.price = OrNum(order.price, tr.price),
                              !.size = OrNum(size_orig, tr.size),
                              !.trader_side = msg.trader_side,
                              !.matched_ts =
                                  IF new_matched # tr.matched_amount
                                    THEN OrNum(msg.match_time, tr.matched_ts)
                                    ELSE tr.matched_ts]

\* The loop of TradeHandler.handle over the orders of one trade event.
RECURSIVE HandleOrders(_, _, _)
HandleOrders(st, msg, orders) ==
    IF orders = <<>> THEN st
    ELSE HandleOrders(TradeAddTo(st, MergeTradeRecord(st.docs, msg, Head(orders))),
                      msg, Tail(orders))

TradeState == [set |-> trade_set, docs |-> trade_docs, events |-> tradeEvents]

\* Every record handed to add() carries the wall clock of its construction or
\* of its last copy; the store keeps the order of these stamps: the key just
\* written becomes the most recently updated one.
Touch(seq, k) == Append(SelectSeq(seq, LAMBDA x : x # k), k)

RECURSIVE TouchOrders(_, _, _)
TouchOrders(seq, msg, orders) ==
    IF orders = <<>> THEN seq
    ELSE TouchOrders(Touch(seq, TradeKey(msg.market, Head(orders).asset_id,
                                         Head(orders).side, Head(orders).order_id)),
                     msg, Tail(orders))

\* TradeHandler.handle(msg): only CONFIRMED events are processed; a TAKER
\* event carries the one order fetched by taker_order_id, a MAKER event its
\* maker_orders.
TradeHandleStore(msg) ==
    /\ IF msg.status # "CONFIRMED"
         THEN UNCHANGED <<trade_set, trade_docs, tradeEvents, touched>>
         ELSE LET st == HandleOrders(TradeState, msg, msg.orders)
              IN  /\ Len(st.events) <= MaxTradeEvents
                  /\ Cardinality(st.set) <= MaxTrades
                  /\ trade_set' = st.set
                  /\ trade_docs' = st.docs
                  /\ tradeEvents' = st.events
                  /\ touched' = TouchOrders(touched, msg, msg.orders)
    /\ UNCHANGED <<snapshots, redeemed>>

TradeHandle(msg) ==
    /\ TradeHandleStore(msg)
    /\ lastOp' = [op |-> "trade"]

\* The same handler, keeping the event and the documents it found.
TradeMerge(msg) ==
    /\ TradeHandleStore(msg)
    /\ lastOp' = [op |-> "merge", msg |-> msg, before |-> trade_docs]

\* TradeResolverTask._build_trade_record(pos): a SELL record under a fresh
\* uuid4 order id, status REDEEMED, active.
BuildRedeemRecord(pos, n) ==
    TradeRecord(pos.conditionId, pos.asset, "SELL", RedeemId(n),
                pos.currentValue, pos.size,
                IF pos.currentValue > 0 THEN (pos.size * 1000) \div pos.currentValue ELSE 0,
                "REDEEMED", TRUE, 0, "TAKER")

\* TradeResolverTask.resolve_positions for one successfully redeemed
\* position: what it writes to the trade store.
ResolvePositionStore(pos) ==
    /\ redeemed < MaxRedeems
    /\ Cardinality(trade_set) < MaxTrades
    /\ Len(tradeEvents) < MaxTradeEvents
    /\ redeemed' = redeemed + 1
    /\ LET st == TradeAddTo(TradeState, BuildRedeemRecord(pos, redeemed + 1))
       IN  /\ trade_set' = st.set
           /\ trade_docs' = st.docs
           /\ tradeEvents' = st.events
    /\ touched' = Touch(touched, TradeKeyOf(BuildRedeemRecord(pos, redeemed + 1)))
    /\ UNCHANGED snapshots

\* TradeResolverTask.resolve_positions for one successfully redeemed position.
ResolvePosition(pos) ==
    /\ ResolvePositionStore(pos)
    /\ lastOp' = [op |-> "redeem"]

\* TradeService.serve(payload), called by TradesSubscriber for the next
\* message: an add event is snapshotted to the sink; nothing is written to the
\* trade store.
TradeServe ==
    /\ tradeEvents # <<>>
    /\ tradeEvents' = Tail(tradeEvents)
    /\ snapshots' = IF Head(tradeEvents).action = "add"
                       THEN Append(snapshots, Head(tradeEvents).key)
                       ELSE snapshots
    /\ lastOp' = [op |-> "serve"]
    /\ UNCHANGED <<trade_set, trade_docs, redeemed, touched>>

\* Inputs: trade events of the user channel and redeemed positions.
MatchTimes == {1, 2}
MatchedAmounts == {0, 5}
TradeOrders ==
    {[asset_id |-> "A_Up", side |-> s, order_id |-> oid, price |-> 500,
      matched_amount |-> ma, status |-> st] :
        s \in Sides, oid \in OrderIds, ma \in MatchedAmounts, st \in {"", "matched"}}
TradeMsgs ==
    {[market |-> "M", status |-> "CONFIRMED", trader_side |-> "TAKER",
      match_time |-> t, size |-> 10, orders |-> <<o>>] :
        t \in MatchTimes, o \in {x \in TradeOrders : x.status = "matched"}}
    \cup
    {[market |-> "M", status |-> "CONFIRMED", trader_side |-> "MAKER",
      match_time |-> t, size |-> 10, orders |-> os] :
        t \in {2},
        os \in {<<o>> : o \in {x \in TradeOrders : x.status = ""}}
             \cup {<<o1, o2>> : o1 \in {x \in TradeOrders : x.status = "" /\ x.order_id = <<"o", 1>>},
                                 o2 \in {x \in TradeOrders : x.status = "" /\ x.order_id = <<"o", 2>>}}}
    \cup
    {[market |-> "M", status |-> "MINED", trader_side |-> "TAKER",
      match_time |-> 1, size |-> 10,
      orders |-> <<[asset_id |-> "A_Up", side |-> "BUY", order_id |-> <<"o", 1>>,
                    price |-> 500, matched_amount |-> 5, status |-> "matched"]>>]}
Positions ==
    {[conditionId |-> "M", asset |-> "A_Up", size |-> 10, currentValue |-> v] :
        v \in {0, 10}}

\* _build_pattern(market_id, asset_id, side) matched by SSCAN against a member
\* market:asset:side:order_id.
MatchesPattern(k, m, a, s) == k[1] = m /\ k[2] = a /\ k[3] = s

\* The orders in which SSCAN may yield the members S: Redis fixes none.
ScanOrders(S) ==
    {sq \in [1..Cardinality(S) -> S] :
        \A i, j \in 1..Cardinality(S) : sq[i] = sq[j] => i = j}

\* _iter_records(pattern): the documents of the scanned members, in scan
\* order; a member without a document is skipped.
RECURSIVE IterRecords(_, _)
IterRecords(d, scan) ==
    IF scan = <<>> THEN <<>>
    ELSE TradeGet(d, Head(scan)) \o IterRecords(d, Tail(scan))

\* The loop of get_active: best is overwritten by every active record.
RECURSIVE GetActiveOver(_, _)
GetActiveOver(best, recs) ==
    IF recs = <<>> THEN best
    ELSE GetActiveOver(IF Head(recs).active THEN <<Head(recs)>> ELSE best, Tail(recs))

\* get_active(market_id, asset_id, side) when SSCAN yields the members in the
\* order scan; <<>> is None.
GetActive(d, scan) == GetActiveOver(<<>>, IterRecords(d, scan))

TradeGetActive ==
    \E m \in Markets, a \in Assets, s \in Sides :
      \E scan \in ScanOrders({k \in trade_set : MatchesPattern(k, m, a, s)}) :
        /\ lastOp' = [op |-> "get_active", market_id |-> m, asset_id |-> a, side |-> s,
                      scan |-> scan, result |-> GetActive(trade_docs, scan)]
        /\ UNCHANGED tradeVars

\* The fills of the BUY orders of one asset.
MergeMsgs == {msg \in TradeMsgs : \A i \in 1..Len(msg.orders) : msg.orders[i].side = "BUY"}

MergeNext ==
    \/ \E msg \in MergeMsgs : TradeMerge(msg)
    \/ TradeServe

ScanNext ==
    \/ \E msg \in TradeMsgs : TradeHandle(msg)
    \/ \E pos \in Positions : ResolvePosition(pos)
    \/ TradeServe
    \/ TradeGetActive

TradeNext ==
    \/ \E msg \in TradeMsgs : TradeHandle(msg)
    \/ \E pos \in Positions : ResolvePosition(pos)
    \/ TradeServe

(***************************************************************************)
(* Claims about the trade record store                                     *)
(***************************************************************************)
ActiveTrades(m, a, s) ==
    {k \in trade_set : /\ k[1] = m /\ k[2] = a /\ k[3] = s
                       /\ trade_docs[k] # NoDoc
                       /\ trade_docs[k][1].active}

TouchRank(k) == CHOOSE i \in 1..Len(touched) : touched[i] = k

EXIT_LOCKOUT_PERIOD_SECONDS == 0
ENTER_LOCKOUT_PERIOD_SECONDS == 0
REVERSAL_CONFIRMATION_PERIOD_SECONDS == 60
DEFAULT_TAKE_PROFIT == 999
DEFAULT_STOP_LOSS == 1

Max(a, b) == IF a >= b THEN a ELSE b
Min(a, b) == IF a <= b THEN a ELSE b

\* ts_to_seconds(ts): a value above 1e11 is taken as milliseconds.  A
\* timestamp is written [unit, v]; unit "ms" stands for v > 1e11.
TsToSeconds(ts) == IF ts.unit = "ms" THEN ts.v \div 1000 ELSE ts.v

\* time_left_sec(ctx): end_date minus the wall clock, carried by the context.
TimeLeftSec(ctx) == ctx.time_left

\* One row of the trade_error table (TradeEvent.log); code "" is none.
TradeEvent(side, state, source, code) ==
    [side |-> side, state |-> state, request_source |-> source, code |-> code]

NoRequest == <<>>

\* _find_action_for_context(context, outcome): the action of the first
\* matching rule, carried by the outcome's view of the context.
FindActionForContext(view) == view.rule

\* Records get_active(market_id, asset_id, side) may return: the active record
\* scanned last, in the order SSCAN happens to yield them.
ActiveChoices(m, a, s) ==
    IF ActiveTrades(m, a, s) = {}
      THEN {<<>>}
      ELSE {<<trade_docs[k][1]>> : k \in ActiveTrades(m, a, s)}

\* The order of the last handled event under key k, if one.
MergedOrders(k) ==
    IF lastOp.op = "merge" /\ lastOp.msg.status = "CONFIRMED"
      THEN {lastOp.msg.orders[i] : i \in
              {j \in 1..Len(lastOp.msg.orders) :
                  TradeKey(lastOp.msg.market, lastOp.msg.orders[j].asset_id,
                           lastOp.msg.orders[j].side, lastOp.msg.orders[j].order_id) = k}}
      ELSE {}

\* C23: when a CONFIRMED trade event is merged into an existing record of the
\* same (market, asset, side, order_id), matched_ts is replaced only if the
\* new matched amount differs from the stored one; a new matched amount of
\* zero leaves the stored matched_amount and matched_ts unchanged; processing
\* the same event again yields the same matched_amount, status, price, size
\* and matched_ts.
C23_MergeIdempotent ==
    \A k \in TradeKeys : \A order \in MergedOrders(k) :
        lastOp.before[k] # NoDoc =>
            LET old == lastOp.before[k][1]
                new == trade_docs[k][1]
                again == MergeTradeRecord(trade_docs, lastOp.msg, order)
            IN  /\ new.matched_ts # old.matched_ts
                      => new.matched_amount # old.matched_amount
                /\ order.matched_amount = 0
                      => /\ new.matched_amount = old.matched_amount
                         /\ new.matched_ts = old.matched_ts
                /\ again.matched_amount = new.matched_amount
                /\ again.status = new.status
                /\ again.price = new.price
                /\ again.size = new.size
                /\ again.matched_ts = new.matched_ts

\* An event with a different matched amount and a later match time has been
\* merged into an existing record and has moved its matched_ts.
C23_Witness ==
    \E k \in TradeKeys : \E order \in MergedOrders(k) :
        /\ lastOp.before[k] # NoDoc
        /\ trade_docs[k][1].matched_amount # lastOp.before[k][1].matched_amount
        /\ trade_docs[k][1].matched_ts # lastOp.before[k][1].matched_ts

\* Mutant of EnterLockedOut: the lockout test is skipped.
EnterNeverLockedOut(ctx) == FALSE
EnterLockedOut(ctx) == TimeLeftSec(ctx) <= ENTER_LOCKOUT_PERIOD_SECONDS
ExitLockedOut(ctx) == TimeLeftSec(ctx) <= EXIT_LOCKOUT_PERIOD_SECONDS

\* Mutant of ShouldEnter: the active position is not consulted.
ShouldEnterIgnoringActive(ctx, view, active) ==
    IF FindActionForContext(view) = <<>>
      THEN [events |-> <<TradeEvent("BUY", "BLOCKED", "Strategy Enter", "NO_ENTER")>>,
            request |-> NoRequest]
    ELSE LET action == FindActionForContext(view)[1]
             side == action.side
             current_price == view.prices[side]
         IN  IF EnterLockedOut(ctx)
               THEN [events |-> <<TradeEvent("BUY", "BLOCKED", "Strategy Enter", "LOCKOUT")>>,
                     request |-> NoRequest]
             ELSE IF current_price = 0
               THEN [events |-> <<TradeEvent(side, "BLOCKED", "Strategy Enter",
                                             "MISSING_DATA_ERROR")>>,
                     request |-> NoRequest]
             ELSE [events |-> <<>>,
                   request |-> <<OrderRequest(ctx.condition_id, AssetOf(view.outcome), side,
                                     current_price, Max(action.size, ctx.order_min_size),
                                     action.order_type, "Strategy Enter", action)>>]
\* should_enter(context, outcome); active is the result of _get_active_position.
ShouldEnter(ctx, view, active) ==
    IF FindActionForContext(view) = <<>>
      THEN [events |-> <<TradeEvent("BUY", "BLOCKED", "Strategy Enter", "NO_ENTER")>>,
            request |-> NoRequest]
    ELSE LET action == FindActionForContext(view)[1]
             side == action.side
             current_price == view.prices[side]
         IN  IF EnterLockedOut(ctx)
               THEN [events |-> <<TradeEvent("BUY", "BLOCKED", "Strategy Enter", "LOCKOUT")>>,
                     request |-> NoRequest]
             ELSE IF current_price = 0
               THEN [events |-> <<TradeEvent(side, "BLOCKED", "Strategy Enter",
                                             "MISSING_DATA_ERROR")>>,
                     request |-> NoRequest]
             ELSE IF active # <<>>
               THEN [events |-> <<TradeEvent(side, "BLOCKED", "Strategy Enter", "LOCKOUT")>>,
                     request |-> NoRequest]
             ELSE [events |-> <<>>,
                   request |-> <<OrderRequest(ctx.condition_id, AssetOf(view.outcome), side,
                                     current_price, Max(action.size, ctx.order_min_size),
                                     action.order_type, "Strategy Enter", action)>>]

\* Mutant of SlTriggerPrice: the sentinel is not recognised.
SlTriggerNoSentinel(entry_price, stop) == entry_price - stop
\* sl_trigger_price: a stop_loss of 1.0 or more stands for "none".
SlTriggerPrice(entry_price, stop) ==
    IF stop >= 1000 THEN DEFAULT_STOP_LOSS ELSE entry_price - stop

\* Mutant of TpTriggerPrice: the target is not capped.
TpTriggerUncapped(entry_price, tp) == entry_price + tp
\* tp_trigger_price
TpTriggerPrice(entry_price, tp) == Min(entry_price + tp, DEFAULT_TAKE_PROFIT)

\* should_exit(context, outcome, enter_request)
ShouldExit(ctx, view, enter_request, active) ==
    IF ExitLockedOut(ctx)
      THEN [events |-> <<TradeEvent("SELL", "BLOCKED", "Strategy Exit", "LOCKOUT")>>,
            request |-> NoRequest]
    ELSE IF active = <<>>
      THEN [events |-> <<TradeEvent("SELL", "BLOCKED", "Strategy Exit", "LOCKOUT")>>,
            request |-> NoRequest]
    ELSE LET entry_price == enter_request.price
             exit_side == OppositeSide(enter_request.side)
             exit_size == active[1].matched_amount
             current_price == view.prices[exit_side]
             stop == enter_request.action.stop_loss
             tp == enter_request.action.take_profit
             sl_trigger_price == SlTriggerPrice(entry_price, stop)
             tp_trigger_price == TpTriggerPrice(entry_price, tp)
             hit_stop == current_price <= sl_trigger_price
             hit_tp == current_price >= tp_trigger_price
         IN  IF current_price = 0
               THEN [events |-> <<TradeEvent(exit_side, "BLOCKED", "Strategy Exit",
                                             "MISSING_DATA_ERROR")>>,
                     request |-> NoRequest]
             ELSE IF ~(hit_stop \/ hit_tp)
               THEN [events |-> <<TradeEvent("SELL", "BLOCKED", "Strategy Exit", "NO_EXIT")>>,
                     request |-> NoRequest]
             ELSE [events |-> <<>>,
                   request |-> <<OrderRequest(enter_request.market_id, enter_request.asset_id,
                                     exit_side, current_price, exit_size, "market",
                                     IF hit_tp THEN "Take Profit" ELSE "Stop Loss",
                                     enter_request.action)>>]

\* Mutant of TrendAllows: the direction is not compared with the side.
TrendAllowsAnySide(ctx, view, request) ==
    IF view.trend = <<>> \/ view.trend[1].direction = "FLAT" THEN "TREND_FLAT"
    ELSE IF /\ view.trend[1].reversal
            /\ TsToSeconds(ctx.event_ts) - view.trend[1].flipped_ts
                  < REVERSAL_CONFIRMATION_PERIOD_SECONDS
      THEN "TREND_REVERSAL"
    ELSE ""

\* The trend gate of _validate_request: "" when the request passes, else the
\* code it is blocked with.
TrendAllows(ctx, view, request) ==
    IF view.trend = <<>> \/ view.trend[1].direction = "FLAT" THEN "TREND_FLAT"
    ELSE IF /\ view.trend[1].reversal
            /\ TsToSeconds(ctx.event_ts) - view.trend[1].flipped_ts
                  < REVERSAL_CONFIRMATION_PERIOD_SECONDS
      THEN "TREND_REVERSAL"
    ELSE IF request.side # (IF view.trend[1].direction = "UP" THEN "BUY" ELSE "SELL")
      THEN "TREND_MISMATCH"
    ELSE ""

\* _validate_request(context, outcome, request)
ValidateRequest(ctx, view, request) ==
    IF request.request_source \in {"Take Profit", "Stop Loss"}
      THEN [ok |-> TRUE,
            event |-> TradeEvent(request.side, "VALIDATED", request.request_source, "")]
    ELSE IF TrendAllows(ctx, view, request) # ""
      THEN [ok |-> FALSE,
            event |-> TradeEvent(request.side, "BLOCKED", request.request_source,
                                 TrendAllows(ctx, view, request))]
    ELSE [ok |-> TRUE,
          event |-> TradeEvent(request.side, "VALIDATED", request.request_source, "")]

\* Mutant of BranchOf: a SELL intent does not stop the evaluation.
BranchOfIgnoringExit(enter_request, exit_request) ==
    IF enter_request # NoDoc THEN "exit" ELSE "enter"

\* The case analysis of evaluate on the two documents of an outcome.
BranchOf(enter_request, exit_request) ==
    IF enter_request # NoDoc /\ exit_request = NoDoc THEN "exit"
    ELSE IF enter_request = NoDoc /\ exit_request = NoDoc THEN "enter"
    ELSE "skip"

\* The body of evaluate's loop for one outcome, on the store state st; the
\* report lists what the iteration read, logged and wrote.
EvaluateOutcome(st, ctx, view, active) ==
    LET enter_request == StoreGet(st.docs, SetKey(ctx.condition_id, AssetOf(view.outcome), "BUY"))
        exit_request == StoreGet(st.docs, SetKey(ctx.condition_id, AssetOf(view.outcome), "SELL"))
        branch == BranchOf(enter_request, exit_request)
        res == IF branch = "exit"
                 THEN ShouldExit(ctx, view, ModelValidateJson(enter_request), active)
               ELSE IF branch = "enter"
                 THEN ShouldEnter(ctx, view, active)
               ELSE [events |-> <<>>, request |-> NoRequest]
        validated == res.request # NoRequest /\ ValidateRequest(ctx, view, res.request[1]).ok
        events == IF res.request # NoRequest
                    THEN Append(res.events, ValidateRequest(ctx, view, res.request[1]).event)
                    ELSE res.events
        st2 == IF validated
                 THEN AddTo([set |-> st.set, docs |-> st.docs, events |-> st.events],
                            res.request[1])
                 ELSE [set |-> st.set, docs |-> st.docs, events |-> st.events]
    IN  [set |-> st2.set, docs |-> st2.docs, events |-> st2.events,
         reports |-> Append(st.reports,
            [outcome |-> view.outcome,
             hadBuy |-> enter_request # NoDoc, hadSell |-> exit_request # NoDoc,
             branch |-> branch, trend |-> view.trend, events |-> events,
             candidate |-> res.request,
             wrote |-> IF validated THEN res.request ELSE NoRequest])]

\* evaluate's loop over context.outcome_assets.
RECURSIVE EvaluateOutcomes(_, _, _, _)
EvaluateOutcomes(st, ctx, views, picks) ==
    IF views = <<>> THEN st
    ELSE EvaluateOutcomes(EvaluateOutcome(st, ctx, Head(views), Head(picks)),
                          ctx, Tail(views), Tail(picks))

\* What _get_active_position may return in the iteration of one outcome.
LookupChoices(ctx, view) ==
    LET enter_request == StoreGet(docs, SetKey(ctx.condition_id, AssetOf(view.outcome), "BUY"))
        exit_request == StoreGet(docs, SetKey(ctx.condition_id, AssetOf(view.outcome), "SELL"))
    IN  IF BranchOf(enter_request, exit_request) = "exit"
          THEN ActiveChoices(ctx.condition_id, AssetOf(view.outcome),
                             ModelValidateJson(enter_request).side)
        ELSE IF /\ BranchOf(enter_request, exit_request) = "enter"
                /\ FindActionForContext(view) # <<>>
          THEN ActiveChoices(ctx.condition_id, AssetOf(view.outcome),
                             FindActionForContext(view)[1].side)
        ELSE {<<>>}

RECURSIVE LookupPicks(_, _)
LookupPicks(ctx, views) ==
    IF views = <<>> THEN {<<>>}
    ELSE {<<p>> \o rest : p \in LookupChoices(ctx, Head(views)),
                          rest \in LookupPicks(ctx, Tail(views))}

\* StrategyEvaluator.evaluate(context).  (The publication of the context to
\* the context store is outside the modelled state.)
Evaluate(ctx, picks) ==
    LET st == EvaluateOutcomes([set |-> active_set, docs |-> docs,
                                events |-> orderEvents, reports |-> <<>>],
                               ctx, ctx.views, picks)
    IN  /\ Len(st.events) <= MaxEvents
        /\ active_set' = st.set
        /\ docs' = st.docs
        /\ orderEvents' = st.events
        /\ lastOp' = [op |-> "evaluate", time_left |-> TimeLeftSec(ctx),
                      now |-> TsToSeconds(ctx.event_ts), reports |-> st.reports]
        /\ UNCHANGED <<cl, ordersSub>>

(***************************************************************************)
(* OrderService.execute_order and OrdersSubscriber._run                    *)
(***************************************************************************)
\* execute_order(payload) for the next message of the subscription.  The
\* order goes to the exchange, which answers success or failure.  When
\* success = (side = SELL) the service calls store.remove(market_id,
\* asset_id): remove takes (market_id, asset_id, side), so the call raises
\* TypeError before anything is removed, execute_order ends without sending
\* its notification, and _run leaves the subscription (its unread messages
\* are lost) and sleeps its backoff.
ExecuteOrder(success) ==
    /\ ordersSub = "listening"
    /\ orderEvents # <<>>
    /\ LET ev == Head(orderEvents)
       IN  IF ev.action \in {"add", "update"}
             THEN LET request == ModelValidateJson(ev.order)
                      raised == (success = (request.side = "SELL"))
                  IN  /\ lastOp' = [op |-> "execute", action |-> ev.action,
                                    key |-> ev.key, side |-> request.side,
                                    kind |-> request.action.order_type,
                                    success |-> success, raised |-> raised,
                                    order |-> ev.order,
                                    repeat |-> /\ lastOp.op = "execute"
                                               /\ lastOp.action = ev.action
                                               /\ lastOp.key = ev.key
                                               /\ lastOp.order = ev.order,
                                    buyBefore |-> docs[SetKey(ev.key[1], ev.key[2], "BUY")],
                                    sellBefore |-> docs[SetKey(ev.key[1], ev.key[2], "SELL")]]
                      /\ ordersSub' = IF raised THEN "backoff" ELSE "listening"
                      /\ orderEvents' = IF raised THEN <<>> ELSE Tail(orderEvents)
             ELSE /\ success     \* a remove message: nothing is sent to the exchange
                  /\ lastOp' = [op |-> "execute", action |-> ev.action, key |-> ev.key]
                  /\ ordersSub' = ordersSub
                  /\ orderEvents' = Tail(orderEvents)
    /\ UNCHANGED <<active_set, docs, cl>>

\* The channel delivers the message handled last once more.
DuplicateDelivery ==
    /\ ordersSub = "listening"
    /\ lastOp.op = "execute" /\ lastOp.action \in {"add", "update"}
    /\ Len(orderEvents) < MaxEvents
    /\ orderEvents' = <<[action |-> lastOp.action, key |-> lastOp.key,
                         order |-> lastOp.order]>> \o orderEvents
    /\ UNCHANGED <<active_set, docs, cl, ordersSub, lastOp>>

\* _run after the backoff sleep: subscribe_events again.
OrdersResubscribe ==
    /\ ordersSub = "backoff"
    /\ ordersSub' = "listening"
    /\ lastOp' = [op |-> "resubscribe"]
    /\ UNCHANGED <<active_set, docs, orderEvents, cl>>

\* Inputs of the evaluator: contexts of market M.
TimeLefts == {0, 5, 200}
Trend(direction, reversal, flipped_ts) ==
    [direction |-> direction, reversal |-> reversal, flipped_ts |-> flipped_ts]
Trends ==
    {<<>>, <<Trend("FLAT", FALSE, 0)>>, <<Trend("UP", FALSE, 0)>>,
     <<Trend("DOWN", FALSE, 0)>>, <<Trend("UP", TRUE, 941)>>, <<Trend("UP", TRUE, 940)>>}
BuyRule(outcome) == StrategyAction("BUY", 8, outcome, 50, 100, 20, "market")
SellRule(outcome) == StrategyAction("SELL", 3, outcome, 50, 100, 20, "limit")
Rules(outcome) == {<<>>, <<BuyRule(outcome)>>, <<SellRule(outcome)>>}
Seconds(v) == [unit |-> "s", v |-> v]
Millis(v) == [unit |-> "ms", v |-> v]
PlainUp == <<Trend("UP", FALSE, 0)>>
View(outcome, rule, prices, trend) ==
    [outcome |-> outcome, rule |-> rule, prices |-> prices, trend |-> trend]
\* Views in which an entry is decided (a quoted book under every trend, an
\* unquoted book) and views in which an open position meets its stop or its
\* target.
EnterViews ==
    {View("Up", r, [BUY |-> 850, SELL |-> 800], t) : r \in Rules("Up"), t \in Trends}
    \cup
    {View("Up", r, [BUY |-> 0, SELL |-> 0], PlainUp) : r \in Rules("Up")}
ExitViews ==
    {View("Up", <<>>, p, t) :
        p \in {[BUY |-> 850, SELL |-> 740], [BUY |-> 850, SELL |-> 990]},
        t \in {<<>>, <<Trend("FLAT", FALSE, 0)>>, PlainUp, <<Trend("DOWN", FALSE, 0)>>}}
UpViews == EnterViews \cup ExitViews
DownViews ==
    {View("Down", r, [BUY |-> 850, SELL |-> 800], PlainUp) :
        r \in {<<>>, <<BuyRule("Down")>>}}
MarketContext(tl, ts, views) ==
    [condition_id |-> "M", time_left |-> tl, event_ts |-> ts, order_min_size |-> 5,
     views |-> views]
\* Every view far from the end date; the views with a plain UP trend at every
\* time left; the reversal trends with event_ts in milliseconds; contexts of
\* both outcomes.
Contexts ==
    {MarketContext(200, Seconds(1000), <<u>>) : u \in UpViews}
    \cup
    {MarketContext(tl, Seconds(1000), <<u>>) :
        tl \in TimeLefts, u \in {x \in UpViews : x.trend = PlainUp}}
    \cup
    {MarketContext(200, Millis(1000000), <<u>>) :
        u \in {x \in EnterViews :
                  x.prices.BUY = 850 /\ x.trend # <<>> /\ x.trend[1].reversal}}
    \cup
    {MarketContext(200, Seconds(1000), <<u, d>>) :
        u \in {x \in EnterViews :
                  /\ x.prices.BUY = 850
                  /\ x.trend \in {PlainUp, <<Trend("FLAT", FALSE, 0)>>}},
        d \in DownViews}

\* place_order of the API and the fills of the user channel seen here.
ApiRequests ==
    {OrderRequest("M", "A_Up", s, 850, 5, "market", "API Call", DefaultAction(s, 5, "Up")) :
        s \in Sides}
FillMsgs ==
    {[market |-> "M", status |-> "CONFIRMED", trader_side |-> "TAKER",
      match_time |-> 1, size |-> 10,
      orders |-> <<[asset_id |-> "A_Up", side |-> "BUY", order_id |-> <<"o", 1>>,
                    price |-> 850, matched_amount |-> 5, status |-> "matched"]>>]}

OrdersNext ==
    \/ \E ctx \in Contexts : \E picks \in LookupPicks(ctx, ctx.views) :
          Evaluate(ctx, picks) /\ UNCHANGED tradeVars
    \/ \E success \in BOOLEAN : ExecuteOrder(success) /\ UNCHANGED tradeVars
    \/ OrdersResubscribe /\ UNCHANGED tradeVars
    \/ \E o \in ApiRequests :
          /\ StoreAdd(o)
          /\ lastOp' = [op |-> "add", key |-> KeyOf(o)]
          /\ UNCHANGED <<cl, ordersSub, tradeVars>>
    \/ \E msg \in FillMsgs :
          TradeHandle(msg) /\ UNCHANGED <<active_set, docs, orderEvents, cl, ordersSub>>
    \/ TradeServe /\ UNCHANGED <<active_set, docs, orderEvents, cl, ordersSub>>

(***************************************************************************)
(* Claims about the executor and the evaluator                             *)
(***************************************************************************)
\* C4 (as claimed): after the executor has handled an add/update event for an
\* intent of side s with exchange result r, the BUY intent of (market, asset)
\* is gone from the order store if r = (s = SELL), otherwise the SELL intent
\* is gone, and the intent of the other side is as it was.
C4_ExecutorRemoval ==
    (lastOp.op = "execute" /\ lastOp.action \in {"add", "update"}) =>
        LET removed == IF lastOp.success = (lastOp.side = "SELL") THEN "BUY" ELSE "SELL"
            rk == SetKey(lastOp.key[1], lastOp.key[2], removed)
            ok == SetKey(lastOp.key[1], lastOp.key[2], OppositeSide(removed))
        IN  /\ docs[rk] = NoDoc
            /\ rk \notin active_set
            /\ docs[ok] = (IF removed = "BUY" THEN lastOp.sellBefore ELSE lastOp.buyBefore)

EvaluateReports == IF lastOp.op = "evaluate" THEN lastOp.reports ELSE <<>>
ExitSources == {"Strategy Exit", "Stop Loss", "Take Profit"}
\* What an iteration ran, read off the rows it logged: every path of
\* should_exit and should_enter that returns nothing logs a row under its own
\* request_source, and a returned request is logged by _validate_request.
RanShouldExit(r) == r.events # <<>> /\ r.events[1].request_source \in ExitSources
RanShouldEnter(r) == r.events # <<>> /\ r.events[1].request_source = "Strategy Enter"

\* C8: for each outcome evaluate runs should_exit iff a BUY intent and no
\* SELL intent exists, should_enter iff neither exists, and with a SELL
\* intent it evaluates nothing, logs nothing and writes nothing; whatever it
\* writes is the document of its key afterwards.
C8_EvaluateCases ==
    \A i \in 1..Len(EvaluateReports) :
        LET r == EvaluateReports[i]
        IN  /\ RanShouldExit(r) <=> (r.hadBuy /\ ~r.hadSell)
            /\ RanShouldEnter(r) <=> (~r.hadBuy /\ ~r.hadSell)
            /\ r.hadSell => (r.events = <<>> /\ r.candidate = NoRequest /\ r.wrote = NoRequest)
            /\ r.wrote # NoRequest =>
                  /\ docs[KeyOf(r.wrote[1])] = ModelDumpJson(r.wrote[1])
                  /\ KeyOf(r.wrote[1]) \in active_set
                  /\ r.wrote[1].asset_id = AssetOf(r.outcome)

\* One evaluate over both outcomes: Up is skipped because its SELL intent
\* exists while its BUY intent exists too, Down is entered and written.
C8_Witness ==
    /\ Len(EvaluateReports) = 2
    /\ EvaluateReports[1].hadBuy /\ EvaluateReports[1].hadSell
    /\ EvaluateReports[1].events = <<>>
    /\ RanShouldEnter(EvaluateReports[2])
    /\ EvaluateReports[2].wrote # NoRequest

\* The trend of a report at the evaluation's event time.
TrendFlat(r) == r.trend = <<>> \/ r.trend[1].direction = "FLAT"
TrendYoungReversal(r) ==
    /\ ~TrendFlat(r)
    /\ r.trend[1].reversal
    /\ lastOp.now - r.trend[1].flipped_ts < 60
TrendSide(r) == IF r.trend[1].direction = "UP" THEN "BUY" ELSE "SELL"
TrendCode(r, side) ==
    IF TrendFlat(r) THEN "TREND_FLAT"
    ELSE IF TrendYoungReversal(r) THEN "TREND_REVERSAL"
    ELSE IF side # TrendSide(r) THEN "TREND_MISMATCH"
    ELSE ""

\* C9: an intent that is neither STOP_LOSS nor TAKE_PROFIT is written only
\* under an UP or DOWN trend that is no reversal younger than 60 s and whose
\* direction matches the side; a candidate the trend blocks is not written
\* and leaves exactly one BLOCKED row with TREND_FLAT, TREND_REVERSAL or
\* TREND_MISMATCH respectively; STOP_LOSS and TAKE_PROFIT candidates are
\* written whatever the trend.
C9_TrendGate ==
    \A i \in 1..Len(EvaluateReports) :
        LET r == EvaluateReports[i]
        IN  r.candidate # NoRequest =>
              LET c == r.candidate[1]
              IN  IF c.request_source \in {"Stop Loss", "Take Profit"}
                    THEN r.wrote = r.candidate
                  ELSE IF TrendCode(r, c.side) = ""
                    THEN r.wrote = r.candidate
                  ELSE /\ r.wrote = NoRequest
                       /\ r.events = <<TradeEvent(c.side, "BLOCKED", c.request_source,
                                                  TrendCode(r, c.side))>>

\* A reversal 59 s old at an event time given in milliseconds blocks an
\* entry that the direction alone would allow.
C9_Witness ==
    \E i \in 1..Len(EvaluateReports) :
        /\ EvaluateReports[i].candidate # NoRequest
        /\ EvaluateReports[i].wrote = NoRequest
        /\ EvaluateReports[i].trend = <<Trend("UP", TRUE, 941)>>
        /\ EvaluateReports[i].candidate[1].side = "BUY"
        /\ EvaluateReports[i].events[1].code = "TREND_REVERSAL"

ExitExecuted(a) ==
    /\ lastOp.op = "execute" /\ lastOp.action \in {"add", "update"}
    /\ lastOp.key = SetKey("M", a, "SELL")
    /\ lastOp.success
    /\ lastOp.buyBefore # NoDoc
    /\ ActiveTrades("M", a, "BUY") # {}

\* C38 (as claimed): after a BUY entry intent has been executed (and filled)
\* and later a SELL exit intent has been executed successfully, the order
\* store eventually holds neither a BUY nor a SELL intent of that (market,
\* asset).
C38_LifecycleCompletes ==
    \A a \in Assets :
        ExitExecuted(a) ~> /\ docs[SetKey("M", a, "BUY")] = NoDoc
                           /\ docs[SetKey("M", a, "SELL")] = NoDoc

\* The entry intents an evaluate step writes: keys whose document is new and
\* comes from should_enter.
EntryWritten(k) ==
    /\ lastOp'.op = "evaluate"
    /\ docs'[k] # docs[k]
    /\ docs'[k] # NoDoc
    /\ ModelValidateJson(docs'[k]).request_source = "Strategy Enter"

ExitEntryPrices == {500, 850, 950}
ExitStops == {100, 1000}
ExitTargets == {20, 100, 1000}
ExitCurrentPrices == {0, 1, 2, 500, 690, 700, 740, 750, 800, 990, 999}
ExitActives ==
    {<<>>,
     <<TradeRecord("M", "A_Up", "BUY", <<"o", 1>>, 5, 8500, 850, "MATCHED", TRUE, 1, "TAKER")>>}

\* A call should_exit(context, "Up", enter_request) with the position found
\* by _get_active_position; the call and what it returned are kept in lastOp.
ShouldExitCall(tl, entry_price, stop, tp, current_price, active) ==
    LET action == StrategyAction("BUY", 8, "Up", 50, stop, tp, "limit")
        enter_request == OrderRequest("M", "A_Up", "BUY", entry_price, 8, "limit",
                                      "Strategy Enter", action)
        ctx == MarketContext(tl, Seconds(1000),
                   <<View("Up", <<>>, [BUY |-> 850, SELL |-> current_price], PlainUp)>>)
        res == ShouldExit(ctx, ctx.views[1], enter_request, active)
    IN  /\ lastOp = NoOp
        /\ lastOp' = [op |-> "should_exit", time_left |-> tl, enter_request |-> enter_request,
                      current_price |-> current_price, active |-> active,
                      events |-> res.events, request |-> res.request]
        /\ UNCHANGED <<storeVars, tradeVars>>

ExitNext ==
    \E tl \in {0, 200}, entry_price \in ExitEntryPrices, stop \in ExitStops,
       tp \in ExitTargets, current_price \in ExitCurrentPrices, active \in ExitActives :
        ShouldExitCall(tl, entry_price, stop, tp, current_price, active)

(***************************************************************************)
(* Claims about should_exit                                                *)
(***************************************************************************)
\* The call got past the lockout, the position lookup and the price lookup,
\* so the triggers decided it.
ExitDecided ==
    /\ lastOp.op = "should_exit"
    /\ lastOp.time_left > EXIT_LOCKOUT_PERIOD_SECONDS
    /\ lastOp.active # <<>>
    /\ lastOp.current_price # 0
ExitIs(source) ==
    /\ lastOp.request # NoRequest
    /\ lastOp.request[1].request_source = source
    /\ lastOp.request[1].price = lastOp.current_price
    /\ lastOp.request[1].side = OppositeSide(lastOp.enter_request.side)

\* C11 (as claimed): with the price at or under the stop trigger and no
\* target hit, a price more than the action's slippage under the trigger
\* gives no intent and a SLIPPAGE row, any other gives a STOP_LOSS intent at
\* the current price.
C11_SlippageGuard ==
    (/\ ExitDecided
     /\ lastOp.current_price <= SlTriggerPrice(lastOp.enter_request.price,
                                               lastOp.enter_request.action.stop_loss)
     /\ lastOp.current_price < TpTriggerPrice(lastOp.enter_request.price,
                                              lastOp.enter_request.action.take_profit))
    => IF lastOp.current_price <
            SlTriggerPrice(lastOp.enter_request.price,
                           lastOp.enter_request.action.stop_loss)
              - lastOp.enter_request.action.slippage
         THEN /\ lastOp.request = NoRequest
              /\ \E i \in 1..Len(lastOp.events) : lastOp.events[i].code = "SLIPPAGE"
         ELSE ExitIs("Stop Loss")

ExecRequests ==
    {OrderRequest("M", AssetOf(outcome), s, 850, 5, otype, "API Call",
                  StrategyAction(s, 5, outcome, 50, 1000, 1000, otype)) :
        outcome \in Outcomes, s \in Sides, otype \in OrderTypes}

ExecNext ==
    \/ \E o \in ExecRequests :
          /\ StoreAdd(o)
          /\ lastOp' = [op |-> "add", key |-> KeyOf(o)]
          /\ UNCHANGED <<cl, ordersSub>>
    \/ \E success \in BOOLEAN : ExecuteOrder(success)
    \/ DuplicateDelivery
    \/ OrdersResubscribe

\* C20: handling a message that was handled just before leaves the order
\* store and the trade store as they were and sends nothing to the exchange.
C20_IdempotentExecutor ==
    (lastOp.op = "execute" /\ lastOp.action \in {"add", "update"} /\ lastOp.repeat) =>
        /\ lastOp.kind \notin {"market", "limit"}
        /\ docs[SetKey(lastOp.key[1], lastOp.key[2], "BUY")] = lastOp.buyBefore
        /\ docs[SetKey(lastOp.key[1], lastOp.key[2], "SELL")] = lastOp.sellBefore

(***************************************************************************)
(* KalmanTrend (tend_detector.py)                                          *)
(*                                                                         *)
(* t-statistics are integer thousandths.  The filter arithmetic of lines   *)
(* 95-119 turns (mid, spread, ts, tick_size) into the velocity t-stat      *)
(* raw_t; the model draws raw_t from RawTs, every value being one the      *)
(* filter can produce, and computes the smoothing and the hysteresis of    *)
(* lines 121-133 as the code does.                                         *)
(***************************************************************************)
MaxKalmanTs == 6
TrendKeys == {<<"M", a>> : a \in Assets}
RawTs == {-4000, 0, 1500, 4000}

KalmanInit == kalman = [k \in TrendKeys |-> <<>>]

\* t_alpha = 0.3: t_prev + 0.3 * (raw_t - t_prev), rounded down to a thousandth.
TEma(t_prev, raw_t) == t_prev + (3 * (raw_t - t_prev)) \div 10

TrendPrediction(direction, t_stat) == [direction |-> direction, t_stat |-> t_stat]

\* Mutant of KalmanDirection: no hold band, a direction needs |t| >= t_enter.
KalmanDirectionNoHold(t, dir) ==
    IF t >= 2000 THEN "UP"
    ELSE IF t <= -2000 THEN "DOWN"
    ELSE "FLAT"

\* Lines 126-130 with t_enter = 2.0 and t_hold = 1.0.
KalmanDirection(t, dir) ==
    IF t >= 2000 \/ (t >= 1000 /\ dir = "UP") THEN "UP"
    ELSE IF t <= -2000 \/ (t <= -1000 /\ dir = "DOWN") THEN "DOWN"
    ELSE "FLAT"

\* update(key, ...) on the state k of one key: the new state and the
\* prediction returned.
KalmanUpdateOn(k, ts, raw_t) ==
    IF k = <<>>
      THEN [state |-> <<[ts |-> ts, t_ema |-> 0, dir |-> "FLAT", reported |-> "FLAT"]>>,
            prediction |-> TrendPrediction("FLAT", 0)]
    ELSE LET t == TEma(k[1].t_ema, raw_t)
             d == KalmanDirection(t, k[1].dir)
         IN  [state |-> <<[ts |-> ts, t_ema |-> t,
                           dir |-> IF d # "FLAT" THEN d ELSE k[1].dir,
                           reported |-> d]>>,
              prediction |-> TrendPrediction(d, t)]

\* The largest timestamp any key has been updated at.
KalmanClock ==
    LET seen == {kalman[k][1].ts : k \in {x \in TrendKeys : kalman[x] # <<>>}}
    IN  IF seen = {} THEN 0 ELSE CHOOSE m \in seen : \A n \in seen : n <= m

\* One call of update for a key, one second after the latest call; lastOp
\* keeps the direction returned by the call before it for the same key.
KalmanUpdate(key, raw_t) ==
    LET ts == KalmanClock + 1
        res == KalmanUpdateOn(kalman[key], ts, raw_t)
    IN  /\ ts <= MaxKalmanTs
        /\ kalman' = [kalman EXCEPT ![key] = res.state]
        /\ lastOp' = [op |-> "kalman_update", key |-> key,
                      previous |-> IF kalman[key] = <<>> THEN "none"
                                   ELSE kalman[key][1].reported,
                      held |-> IF kalman[key] = <<>> THEN "none"
                               ELSE kalman[key][1].dir,
                      prediction |-> res.prediction]

TrendNext == \E key \in TrendKeys, raw_t \in RawTs : KalmanUpdate(key, raw_t)

\* C15: an update that follows one which reported UP for the same key
\* reports UP whenever its smoothed t-stat is at least 1.0, and one that
\* follows a DOWN report reports DOWN whenever its t-stat is at most -1.0.
C15_Hysteresis ==
    lastOp.op = "kalman_update" =>
        /\ lastOp.previous = "UP" /\ lastOp.prediction.t_stat >= 1000
              => lastOp.prediction.direction = "UP"
        /\ lastOp.previous = "DOWN" /\ lastOp.prediction.t_stat <= -1000
              => lastOp.prediction.direction = "DOWN"

\* UP kept inside the band 1.0 <= t < 2.0.
C15_Witness ==
    /\ lastOp.op = "kalman_update"
    /\ lastOp.previous = "UP"
    /\ lastOp.prediction.t_stat >= 1000 /\ lastOp.prediction.t_stat < 2000
    /\ lastOp.prediction.direction = "UP"

\* C30 (as claimed): the reported direction changes from FLAT to UP only at
\* an update whose smoothed t-stat is at least 2.0, and from FLAT to DOWN only
\* at one whose t-stat is at most -2.0, whatever was reported before the
\* FLAT.
C30_FlatLeavesOnlyAtEnter ==
    (lastOp.op = "kalman_update" /\ lastOp.previous = "FLAT") =>
        /\ lastOp.prediction.direction = "UP" => lastOp.prediction.t_stat >= 2000
        /\ lastOp.prediction.direction = "DOWN" => lastOp.prediction.t_stat <= -2000

\* C30 (amended): after a report of FLAT, an update reports UP exactly when
\* its smoothed t-stat is at least 2.0, or at least 1.0 while the latest
\* direction other than FLAT reported for the key was UP; it reports DOWN
\* exactly when the t-stat is at most -2.0, or at most -1.0 while the latest
\* direction other than FLAT was DOWN.  lastOp.held is that latest direction,
\* "FLAT" when there is none.
C30_FlatLeavesAtEnterOrHeld ==
    (lastOp.op = "kalman_update" /\ lastOp.previous = "FLAT") =>
        /\ lastOp.prediction.direction = "UP" <=>
              \/ lastOp.prediction.t_stat >= 2000
              \/ (lastOp.prediction.t_stat >= 1000 /\ lastOp.held = "UP")
        /\ lastOp.prediction.direction = "DOWN" <=>
              \/ lastOp.prediction.t_stat <= -2000
              \/ (lastOp.prediction.t_stat <= -1000 /\ lastOp.held = "DOWN")

\* UP, then FLAT, then UP again inside the band 1.0 <= t < 2.0.
C30_Witness ==
    /\ lastOp.op = "kalman_update"
    /\ lastOp.previous = "FLAT"
    /\ lastOp.held = "UP"
    /\ lastOp.prediction.t_stat >= 1000 /\ lastOp.prediction.t_stat < 2000
    /\ lastOp.prediction.direction = "UP"

(***************************************************************************)
(* PriceChangeHandler (price_handler.py)                                   *)
(*                                                                         *)
(* Prices arrive in ten-thousandths and are kept, as q3 keeps them, in     *)
(* thousandths rounded down.  An absent best_ask or best_bid is <<>>.      *)
(***************************************************************************)
MaxPriceMsgs == 5
PriceRawTs == {-4000, 4000}

\* The markets of the handler context: M, and M2 with its own two tokens.
BookMarkets == {"M", "M2"}

PriceInit == price_map = [m \in BookMarkets |-> <<>>] /\ emitted = <<>>

q3(x) == x \div 10

\* outcomes[token_ids.index(asset_id)]; <<>> stands for the ValueError.
OutcomeOfAsset(market, asset_id) ==
    IF market = "M" /\ asset_id \in Assets
      THEN <<CHOOSE o \in Outcomes : AssetOf(o) = asset_id>>
    ELSE IF market = "M2" /\ asset_id = "B_Up" THEN <<"Up">>
    ELSE IF market = "M2" /\ asset_id = "B_Down" THEN <<"Down">>
    ELSE <<>>

BookIndex(book, asset_id) ==
    LET hits == {i \in 1..Len(book) : book[i].asset_id = asset_id}
    IN  IF hits = {} THEN 0 ELSE CHOOSE i \in hits : TRUE

\* Mutant of ApplyPriceChange: a side the entry does not carry is cleared.
ApplyPriceChangeBothSides(market, book, pc) ==
    IF OutcomeOfAsset(market, pc.asset_id) = <<>> THEN book
    ELSE LET i == BookIndex(book, pc.asset_id)
             fresh == [asset_id |-> pc.asset_id,
                       outcome |-> OutcomeOfAsset(market, pc.asset_id)[1],
                       BUY |-> <<>>, SELL |-> <<>>, trend |-> <<>>]
             old == IF i = 0 THEN fresh ELSE book[i]
             new == [old EXCEPT !.BUY = IF pc.best_ask # <<>> THEN <<q3(pc.best_ask[1])>> ELSE <<>>,
                                !.SELL = IF pc.best_bid # <<>> THEN <<q3(pc.best_bid[1])>> ELSE <<>>]
         IN  IF i = 0 THEN Append(book, new) ELSE [book EXCEPT ![i] = new]
\* One element of msg["price_changes"]: lines 45-56.
ApplyPriceChange(market, book, pc) ==
    IF OutcomeOfAsset(market, pc.asset_id) = <<>> THEN book
    ELSE LET i == BookIndex(book, pc.asset_id)
             fresh == [asset_id |-> pc.asset_id,
                       outcome |-> OutcomeOfAsset(market, pc.asset_id)[1],
                       BUY |-> <<>>, SELL |-> <<>>, trend |-> <<>>]
             old == IF i = 0 THEN fresh ELSE book[i]
             new == [old EXCEPT !.BUY = IF pc.best_ask # <<>> THEN <<q3(pc.best_ask[1])>> ELSE @,
                                !.SELL = IF pc.best_bid # <<>> THEN <<q3(pc.best_bid[1])>> ELSE @]
         IN  IF i = 0 THEN Append(book, new) ELSE [book EXCEPT ![i] = new]

\* update_prices(market, msg, ctx) on the book of msg["market"].
RECURSIVE UpdatePrices(_, _, _)
UpdatePrices(market, book, price_changes) ==
    IF price_changes = <<>> THEN book
    ELSE UpdatePrices(market, ApplyPriceChange(market, book, Head(price_changes)),
                      Tail(price_changes))

\* data.get(s, 0) and data[s] if s in data.keys() else 0
PriceOr0(data, s) == IF data[s] = <<>> THEN 0 ELSE data[s][1]

\* update_trend for one asset book: lines 66-86.  raw_t is the t-stat the
\* filter computes for this update.
UpdateAssetTrend(data, k, ts, raw_t) ==
    LET ask == PriceOr0(data, "BUY")
        bid == PriceOr0(data, "SELL")
        res == KalmanUpdateOn(k, ts, raw_t)
        trend == res.prediction
        prev == data.trend
    IN  IF ~(ask >= bid /\ bid > 0)
          THEN [data |-> data, state |-> k]
        ELSE IF prev # <<>> /\ trend.direction # prev[1].direction
          THEN [data |-> [data EXCEPT !.trend = <<Trend(trend.direction, TRUE, ts)>>],
                state |-> res.state]
        ELSE [data |-> [data EXCEPT !.trend =
                          <<Trend(trend.direction,
                                  IF prev # <<>> THEN prev[1].reversal ELSE FALSE,
                                  IF prev # <<>> THEN prev[1].flipped_ts ELSE 0)>>],
              state |-> res.state]

UpdateTrend(book, kf, ts, raws) ==
    [book |-> [i \in 1..Len(book) |->
                 UpdateAssetTrend(book[i], kf[<<"M", book[i].asset_id>>], ts,
                                  raws[book[i].asset_id]).data],
     kalman |-> [k \in TrendKeys |->
                 IF BookIndex(book, k[2]) = 0 THEN kf[k]
                 ELSE UpdateAssetTrend(book[BookIndex(book, k[2])], kf[k], ts,
                                       raws[k[2]]).state]]

\* get_outcome_prices, get_outcome_assets, get_outcome_trends for one asset
\* book; rule is the rule the strategies match for the outcome.
BookView(data, rules) ==
    View(data.outcome, rules[data.outcome],
         [BUY |-> PriceOr0(data, "BUY"), SELL |-> PriceOr0(data, "SELL")], data.trend)

BuildContext(book, msg, rules, tl) ==
    MarketContext(tl, msg.timestamp, [i \in 1..Len(book) |-> BookView(book[i], rules)])

\* Messages arrive a minute apart: the number of messages handled so far.
PriceClock == IF emitted = <<>> THEN 0 ELSE TsToSeconds(emitted[1].event_ts) \div 60

\* handle(msg): update_prices, update_trend, build_context, evaluate.
PriceHandle(msg, raws, rules, tl) ==
    IF msg.market # "M"
      THEN /\ lastOp' = [op |-> "price_ignored"]
           /\ UNCHANGED <<storeVars, feedVars>>
    ELSE LET tr == UpdateTrend(UpdatePrices("M", price_map["M"], msg.price_changes), kalman,
                               TsToSeconds(msg.timestamp), raws)
             context == BuildContext(tr.book, msg, rules, tl)
         IN  /\ price_map' = [price_map EXCEPT !["M"] = tr.book]
             /\ kalman' = tr.kalman
             /\ emitted' = <<context>>
             /\ \E picks \in LookupPicks(context, context.views) : Evaluate(context, picks)

PriceChange(asset_id, best_ask, best_bid) ==
    [asset_id |-> asset_id, best_ask |-> best_ask, best_bid |-> best_bid]

PriceMsgs ==
    LET ts == Seconds(60 * (PriceClock + 1))
    IN  {[market |-> "M", timestamp |-> ts, price_changes |-> <<PriceChange("A_Up", a, b)>>] :
            a \in {<<>>, <<5000>>, <<8505>>}, b \in {<<>>, <<4990>>, <<8500>>}}
        \cup
        {[market |-> "M", timestamp |-> ts,
          price_changes |-> <<PriceChange("A_Down", <<1500>>, <<1495>>),
                              PriceChange("A_Other", <<1500>>, <<1495>>)>>],
         [market |-> "X", timestamp |-> ts, price_changes |-> <<>>]}

PricesNext ==
    \/ \E msg \in PriceMsgs, raw_t \in PriceRawTs, up \in {<<>>, <<BuyRule("Up")>>} :
          /\ PriceClock < MaxPriceMsgs
          /\ PriceHandle(msg, [a \in Assets |-> raw_t], [o \in Outcomes |-> IF o = "Up" THEN up ELSE <<>>], 200)
    \/ SubscriberReceive /\ UNCHANGED feedVars

\* C16: in every context the handler builds, each outcome's BUY price is at
\* least its SELL price whenever both are non-zero.
C16_BuyAtLeastSell ==
    emitted # <<>> =>
        \A i \in 1..Len(emitted[1].views) :
            emitted[1].views[i].prices.BUY # 0 /\ emitted[1].views[i].prices.SELL # 0
                => emitted[1].views[i].prices.BUY >= emitted[1].views[i].prices.SELL

(***************************************************************************)
(* update_prices on its own: the method applied to drawn events            *)
(***************************************************************************)
\* update_prices(market, msg, ctx) with market = ctx.markets[msg["market"]],
\* as handle calls it.
BookUpdate(msg) ==
    /\ price_map' = [price_map EXCEPT ![msg.market] =
                        UpdatePrices(msg.market, @, msg.price_changes)]
    /\ lastOp' = [op |-> "update_prices", msg |-> msg, before |-> price_map]
    /\ UNCHANGED <<storeVars, kalman, emitted>>

BookAssets == Assets \cup {"B_Up", "B_Down", "A_Other"}
BookAsks == {<<>>, <<5000>>, <<8505>>}
BookBids == {<<>>, <<4990>>}
\* Events of both markets with one entry (a token of the market, a token of
\* the other market, an unknown asset), and events that list one asset twice.
BookMsgs ==
    {[market |-> m, price_changes |-> <<PriceChange(a, ask, bid)>>] :
        m \in BookMarkets, a \in {"A_Up", "A_Down", "B_Up", "A_Other"},
        ask \in BookAsks, bid \in BookBids}
    \cup
    {[market |-> "M",
      price_changes |-> <<PriceChange("A_Up", <<8505>>, <<>>), PriceChange("A_Up", ask, <<4990>>)>>] :
        ask \in BookAsks}

BookNext == \E msg \in BookMsgs : BookUpdate(msg)

\* The price an asset book holds for a side; <<>> without book or price.
PriceAt(book, a, s) ==
    IF BookIndex(book, a) = 0 THEN <<>> ELSE book[BookIndex(book, a)][s]
SideField(s) == IF s = "BUY" THEN "best_ask" ELSE "best_bid"
\* The entries of the event that carry side s of asset a.
Carrying(msg, a, s) ==
    {i \in 1..Len(msg.price_changes) :
        /\ msg.price_changes[i].asset_id = a
        /\ msg.price_changes[i][SideField(s)] # <<>>}
LastOf(S) == CHOOSE i \in S : \A j \in S : j <= i

\* C32: after update_prices, for each asset the event lists among the
\* market's tokens, the BUY price is the (last) best_ask the event carries
\* for it, quantized to thousandths, and the SELL price the best_bid; a side
\* no entry carries keeps its value; the prices of every other asset and of
\* every other market are as before; an entry whose asset is not a token of
\* the market leaves no book and changes no price.
C32_PriceChangeFrame ==
    lastOp.op = "update_prices" =>
        \A m \in BookMarkets : \A a \in BookAssets : \A s \in Sides :
            LET msg == lastOp.msg
                hits == Carrying(msg, a, s)
            IN  /\ IF m = msg.market /\ OutcomeOfAsset(m, a) # <<>> /\ hits # {}
                     THEN PriceAt(price_map[m], a, s) =
                            <<q3(msg.price_changes[LastOf(hits)][SideField(s)][1])>>
                     ELSE PriceAt(price_map[m], a, s) = PriceAt(lastOp.before[m], a, s)
                /\ OutcomeOfAsset(m, a) = <<>> => BookIndex(price_map[m], a) = 0

\* An event of M carrying only a best_ask for A_Up has replaced its BUY price
\* and kept its SELL price, while M2 holds prices of its own.
C32_Witness ==
    /\ lastOp.op = "update_prices"
    /\ lastOp.msg.market = "M"
    /\ lastOp.msg.price_changes = <<PriceChange("A_Up", <<8505>>, <<>>)>>
    /\ PriceAt(lastOp.before["M"], "A_Up", "BUY") = <<500>>
    /\ PriceAt(price_map["M"], "A_Up", "BUY") = <<850>>
    /\ PriceAt(price_map["M"], "A_Up", "SELL") = <<499>>
    /\ PriceAt(price_map["M2"], "B_Up", "BUY") # <<>>

(***************************************************************************)
(* MarketWSClient (market_ws_client.py)                                    *)
(*                                                                         *)
(* The client has been started and is not stopped.  A market is named by   *)
(* its slug; each has two clobTokenIds.                                    *)
(***************************************************************************)
SlugLists == {<<>>, <<"s1">>, <<"s1", "s2">>}
NoConn == [state |-> "none", code |-> 0]

RECURSIVE AssetIdsOf(_)
\* [a for m in self.markets for a in json.loads(m.get("clobTokenIds"))]
AssetIdsOf(markets) ==
    IF markets = <<>> THEN <<>>
    ELSE <<<<Head(markets), "yes">>, <<Head(markets), "no">>>> \o AssetIdsOf(Tail(markets))

WsInit ==
    /\ ws_markets = <<>> /\ ctx_markets = <<>> /\ assets_ids = <<>>
    /\ restart = FALSE /\ ws_ref = "none" /\ conn = NoConn
    /\ ws_pc = "connect" /\ backoff = 1 /\ ws_frame = <<>>

\* ws.close(code, reason) on a connection: a closed one keeps its code.
CloseConn(c, code) == IF c.state = "open" THEN [state |-> "closed", code |-> code] ELSE c

\* _slugs_to_markets: every slug resolves, or the lookup fails for all.
SlugsToMarkets(slugs, gamma_up) == IF gamma_up THEN slugs ELSE <<>>

\* update_slugs(slugs) from the return of _slugs_to_markets on; nothing
\* awaits between that and the close frame.
UpdateSlugs(slugs, gamma_up) ==
    LET markets == SlugsToMarkets(slugs, gamma_up)
    IN  /\ ws_markets' = markets
        /\ IF markets = <<>>
             THEN UNCHANGED <<ctx_markets, assets_ids, restart, conn>>
             ELSE /\ assets_ids' = AssetIdsOf(markets)
                  /\ ctx_markets' = markets
                  /\ restart' = TRUE
                  /\ conn' = IF ws_ref # "none" THEN CloseConn(conn, 4000) ELSE conn
        /\ lastOp' = [op |-> "update_slugs", slugs |-> slugs, markets |-> markets,
                      had_open |-> ws_ref # "none" /\ conn.state = "open",
                      conn_after |-> conn']
        /\ ws_frame' = <<>>
        /\ UNCHANGED <<ws_ref, ws_pc, backoff>>

\* websockets.connect raises: _run logs, sleeps backoff.
ConnectFail ==
    /\ ws_pc = "connect"
    /\ ws_pc' = "sleep"
    /\ lastOp' = [op |-> "ws_error", delay |-> backoff, established |-> FALSE]
    /\ UNCHANGED <<ws_markets, ctx_markets, assets_ids, restart, ws_ref, conn, backoff, ws_frame>>

\* websockets.connect returns: self._ws = ws, _send_subscribe.  ws.send
\* raises only on a connection already lost; the error is logged and the
\* pump starts on the lost connection.
Connect(send_ok) ==
    /\ ws_pc = "connect"
    /\ ws_ref' = "conn"
    /\ conn' = IF send_ok THEN [state |-> "open", code |-> 0]
                ELSE [state |-> "closed", code |-> 1006]
    /\ ws_frame' = IF send_ok THEN <<assets_ids>> ELSE ws_frame
    /\ ws_pc' = "pump"
    /\ lastOp' = [op |-> "ws_connect", sent |-> send_ok, frame |-> assets_ids]
    /\ UNCHANGED <<ws_markets, ctx_markets, assets_ids, restart, backoff>>

\* A frame is received and handed to the actors.
PumpRecv ==
    /\ ws_pc = "pump" /\ conn.state = "open" /\ ~restart
    /\ lastOp' = [op |-> "ws_ingest"]
    /\ UNCHANGED wsVars

\* restart_task is done: break, and the connection starts closing.
PumpRestart ==
    /\ ws_pc = "pump" /\ restart
    /\ conn' = CloseConn(conn, 1000)
    /\ ws_pc' = "closing"
    /\ lastOp' = [op |-> "ws_break"]
    /\ UNCHANGED <<ws_markets, ctx_markets, assets_ids, restart, ws_ref, backoff, ws_frame>>

\* The peer drops the connection and ws.recv raises: _run logs and sleeps
\* backoff.
PumpDrop ==
    /\ ws_pc = "pump" /\ conn.state = "open" /\ ~restart
    /\ conn' = CloseConn(conn, 1006)
    /\ ws_pc' = "sleep"
    /\ lastOp' = [op |-> "ws_error", delay |-> backoff, established |-> TRUE]
    /\ UNCHANGED <<ws_markets, ctx_markets, assets_ids, restart, ws_ref, backoff, ws_frame>>

\* ws.recv raises on a connection that is lost already.
PumpError ==
    /\ ws_pc = "pump" /\ conn.state = "closed" /\ ~restart
    /\ ws_pc' = "sleep"
    /\ lastOp' = [op |-> "ws_error", delay |-> backoff, established |-> FALSE]
    /\ UNCHANGED <<ws_markets, ctx_markets, assets_ids, restart, ws_ref, conn, backoff, ws_frame>>

\* _connect_and_pump returns: self._ws = None, then _restart.clear() and
\* backoff = 1.0 in _run.
RunReturn ==
    /\ ws_pc = "closing"
    /\ ws_ref' = "none"
    /\ restart' = FALSE
    /\ backoff' = 1
    /\ ws_pc' = "connect"
    /\ lastOp' = [op |-> "ws_return"]
    /\ UNCHANGED <<ws_markets, ctx_markets, assets_ids, conn, ws_frame>>

\* The sleep is over: backoff = min(backoff * 2, 10.0).
RunWake ==
    /\ ws_pc = "sleep"
    /\ backoff' = Min(backoff * 2, 10)
    /\ ws_pc' = "connect"
    /\ lastOp' = [op |-> "ws_wake", slept |-> backoff]
    /\ UNCHANGED <<ws_markets, ctx_markets, assets_ids, restart, ws_ref, conn, ws_frame>>

WsNext ==
    \/ \E slugs \in SlugLists, gamma_up \in BOOLEAN : UpdateSlugs(slugs, gamma_up)
    \/ ConnectFail
    \/ \E send_ok \in BOOLEAN : Connect(send_ok)
    \/ PumpRecv
    \/ PumpRestart
    \/ PumpDrop
    \/ PumpError
    \/ RunReturn
    \/ RunWake

\* C17: a completed update_slugs closes the open connection with the
\* resubscribe code 4000, every subscription frame sent after it carries the
\* asset ids of the markets of the latest call, and such a frame is
\* eventually sent.
C17_Resubscribe ==
    /\ [](lastOp.op = "update_slugs" /\ lastOp.had_open
            => lastOp.conn_after = [state |-> "closed", code |-> 4000])
    /\ [](ws_frame # <<>> => ws_frame[1] = AssetIdsOf(ws_markets))
    /\ \A markets \in SlugLists :
          (ws_markets = markets) ~> (ws_frame = <<AssetIdsOf(markets)>> \/ ws_markets # markets)

\* C33 (as claimed): after every completed update_slugs, also one whose slug
\* list is empty or resolves to no market, the client's markets, its
\* subscribed asset ids and the handler context's markets all describe the
\* markets of that call.
C33_ConsistentAfterUpdate ==
    lastOp.op = "update_slugs" =>
        /\ ws_markets = lastOp.markets
        /\ assets_ids = AssetIdsOf(ws_markets)
        /\ ctx_markets = ws_markets

\* C18: the delay slept after a failure is at most 10 s, the next one is its
\* double capped at 10 s, and the delay slept after the failure of a
\* connection that had been established is the initial 1 s.
C18_BackoffReset ==
    /\ backoff <= 10
    /\ lastOp.op = "ws_wake" => backoff = Min(2 * lastOp.slept, 10)
    /\ lastOp.op = "ws_error" /\ lastOp.established => lastOp.delay = 1

(***************************************************************************)
(* MarketWSClient.stop, ActorManager.stop_all, MarketActor.stop            *)
(*                                                                         *)
(* The actor of one market has been created and started by                 *)
(* ActorManager.get.  actorPc keeps the await at which a cancelled task    *)
(* ended.                                                                  *)
(***************************************************************************)
StopInit == ing_stop = "running" /\ actor_running = TRUE /\ actor_task = "alive"

\* Mutant of TaskCanRun: a task runs on until it is done, a requested
\* cancellation is not delivered at its current await.
TaskRunsUntilDone(task) == task # "done"
\* A task whose cancellation has been requested resumes with CancelledError
\* at the await it is suspended on and runs none of the code after it; nothing
\* in _run or in MessageRouter.dispatch catches CancelledError.
TaskCanRun(task) == task = "alive"

\* stop() up to `await self._task`: _stop.set(), self._task.cancel().  The
\* run task ingests nothing from here on.
IngStopCall ==
    /\ ing_stop = "running"
    /\ ing_stop' = "cancelling"
    /\ lastOp' = [op |-> "stop_called"]
    /\ UNCHANGED <<actorVars, wsVars, actor_running, actor_task>>

\* The run task has ended with CancelledError; stop() goes on with
\* _close_ws() and enters stop_all.
IngCloseWs ==
    /\ ing_stop = "cancelling"
    /\ ing_stop' = "closed"
    /\ conn' = IF ws_ref # "none" THEN CloseConn(conn, 1000) ELSE conn
    /\ ws_ref' = "none"
    /\ ws_pc' = "stopped"
    /\ lastOp' = [op |-> "ws_closed"]
    /\ UNCHANGED <<actorVars, ws_markets, ctx_markets, assets_ids, restart, backoff, ws_frame,
                   actor_running, actor_task>>

\* MarketActor.stop() up to `await self._task`, called from stop_all.
ActorStop ==
    /\ ing_stop = "closed"
    /\ actor_task = "alive"
    /\ actor_running' = FALSE
    /\ actor_task' = "cancelling"
    /\ lastOp' = [op |-> "actor_stop", pc |-> actorPc, pending |-> mailbox # <<>> /\ tick_due]
    /\ UNCHANGED <<actorVars, wsVars, ing_stop>>

\* The actor task resumes with CancelledError and ends.
ActorCancelled ==
    /\ actor_task = "cancelling"
    /\ actor_task' = "done"
    /\ UNCHANGED <<actorVars, wsVars, lastOp, ing_stop, actor_running>>

\* gather returns, _actors.clear(), stop() returns.
IngStopReturn ==
    /\ ing_stop = "closed"
    /\ actor_task = "done"
    /\ ing_stop' = "stopped"
    /\ UNCHANGED <<actorVars, wsVars, lastOp, actor_running, actor_task>>

\* The run task posts while it has not been cancelled; the actor task runs
\* while it can.
StopNext ==
    \/ /\ ing_stop = "running"
       /\ \E ts \in Timestamps : Post(ts)
       /\ UNCHANGED <<wsVars, lastOp, stopVars>>
    \/ /\ TaskCanRun(actor_task)
       /\ (ActorWake \/ ActorTick \/ ActorDispatchDone)
       /\ UNCHANGED <<wsVars, lastOp, stopVars>>
    \/ IngStopCall
    \/ IngCloseWs
    \/ ActorStop
    \/ ActorCancelled
    \/ IngStopReturn

\* C34: once the actor has been stopped no router dispatch starts, whatever
\* waits in its mailbox and wherever its task was (waiting, in the coalescing
\* sleep, in a dispatch); stop() returns only when the actor task has ended,
\* so that after stop() has completed nothing is dispatched and the pending
\* envelopes stay where they are.
C34_NoDispatchAfterStop ==
    /\ [](ing_stop = "stopped" => actor_task = "done" /\ ~actor_running)
    /\ [][actor_task # "alive" => dispatched' = dispatched /\ mailbox' = mailbox]_vars
    /\ [][ing_stop = "stopped" => UNCHANGED actorVars]_vars

\* stop() has returned; the actor was cancelled in its coalescing sleep with
\* an envelope in the mailbox that no dispatch has taken.
C34_Witness ==
    /\ ing_stop = "stopped"
    /\ lastOp.op = "actor_stop" /\ lastOp.pc = "sleeping" /\ lastOp.pending
    /\ Last(mailbox) \notin DispatchedIds

(***************************************************************************)
(* MessageRouter.dispatch (handlers.py) inside MarketActor._run            *)
(*                                                                         *)
(* A handler is the set of event types its can_handle accepts; the router  *)
(* is built with per_handler_timeout_ms set, so that a slow handler times  *)
(* out.  "none" is a message without event_type: can_handle raises         *)
(* KeyError.                                                               *)
(***************************************************************************)
RouterHandlers == <<{"price_change"}, {"book"}, {"price_change", "book"}>>
EventTypes == {"price_change", "book", "none"}
HandlerOutcomes == {"ok", "raise", "timeout"}

RouterInit == router_event = "" /\ router_i = 0 /\ invoked = <<>>

\* Mutant of RouterCatches: only the timeout is caught.
RouterCatchesTimeout(outcome) == outcome = "timeout"

\* except asyncio.TimeoutError / except Exception around one handler.
RouterCatches(outcome) == outcome \in {"raise", "timeout"}

\* _run up to the call of router.dispatch(env.payload): ActorTick, and the
\* loop over the handlers starts.
RouterTick ==
    /\ ActorTick
    /\ IF mailbox = <<>>
         THEN UNCHANGED routerVars
         ELSE /\ router_event' \in EventTypes
              /\ router_i' = 1
              /\ invoked' = <<>>

\* One iteration of the loop of dispatch.  An exception that is not caught
\* leaves the loop; _run catches it.
RouterStep(outcome) ==
    /\ actorPc = "dispatching"
    /\ router_i \in 1..Len(RouterHandlers)
    /\ IF router_event = "none"
         THEN /\ outcome = "raise"
              /\ router_i' = IF RouterCatches(outcome) THEN router_i + 1
                              ELSE Len(RouterHandlers) + 1
              /\ UNCHANGED invoked
         ELSE IF router_event \notin RouterHandlers[router_i]
         THEN /\ outcome = "ok"
              /\ router_i' = router_i + 1
              /\ UNCHANGED invoked
         ELSE /\ invoked' = Append(invoked, [h |-> router_i, outcome |-> outcome])
              /\ router_i' = IF outcome = "ok" \/ RouterCatches(outcome) THEN router_i + 1
                              ELSE Len(RouterHandlers) + 1
    /\ UNCHANGED <<router_event, actorVars>>

\* dispatch returns or raises into the except of _run: ActorDispatchDone.
RouterReturn ==
    /\ router_i = Len(RouterHandlers) + 1
    /\ ActorDispatchDone
    /\ UNCHANGED routerVars

RouterNext ==
    \/ \E ts \in Timestamps : Post(ts) /\ UNCHANGED routerVars
    \/ ActorWake /\ UNCHANGED routerVars
    \/ RouterTick
    \/ \E outcome \in HandlerOutcomes : RouterStep(outcome)
    \/ RouterReturn

\* The handlers among the first n that accept the event type, in declared order.
MatchingUpTo(ev, n) ==
    SelectSeq([i \in 1..n |-> i], LAMBDA i : ev \in RouterHandlers[i])
InvokedIds == [n \in 1..Len(invoked) |-> invoked[n].h]

\* C19: whatever the handlers' outcomes, dispatch calls every matching
\* handler in declared order, the actor loop is never left, and every
\* accepted post is followed by a further dispatch.
C19_HandlerIsolation ==
    /\ [](router_i > 0 => InvokedIds = MatchingUpTo(router_event, router_i - 1))
    /\ [](actorPc \in {"waiting", "sleeping", "dispatching"})
    /\ \A k \in 0..MaxPosts :
          (tick_due /\ Len(dispatched) = k) ~> (Len(dispatched) > k)

\* A second dispatch has run to its end after one in which the first
\* matching handler raised and the last one was still called.
C19_Witness ==
    /\ Len(dispatched) >= 2
    /\ actorPc = "waiting"
    /\ router_event = "price_change"
    /\ Len(invoked) = 2
    /\ invoked[1].outcome = "raise"
    /\ invoked[2].h = 3

(***************************************************************************)
(* ResolutionService.cancel_stale_orders                                   *)
(***************************************************************************)
STALE_ORDER_SECONDS == 300

\* time.time() during one run of cancel_stale_orders.
CancelNow == 1000

\* Bound: the number of orders get_orders_retry returns.
MaxOpenOrders == 2

\* str(o.get("status")).upper() on the statuses that occur.
StatusUpper(x) == IF x = "live" THEN "LIVE" ELSE x

\* Mutant of OrderIsStale: the age test is skipped.
OrderIsStaleAlways(now, o) == TRUE
\* age = now - created_at; "age < STALE_ORDER_SECONDS: continue".
OrderIsStale(now, o) == ~(now - o.created_at < STALE_ORDER_SECONDS)

\* cancel_order_retry(order_id) on the outcomes of the exchange call: "ok";
\* "rejected", a PolyApiException, which cancel_order catches, logs and turns
\* into the returned dict {"code", "error"}; "raise", any other exception
\* (the 10 s timeout after the retries).  TRUE when the call returns.
CancelOrderReturns(outcome) == outcome # "raise"

\* One iteration of the loop over the orders.  env[market] is what the
\* exchange knows of the market: ended is "yes", "no" or "undated" (no end date
\* in the document, on which market_has_ended raises); o.lookup and o.cancel
\* are the outcomes of get_market_retry (called when the market is not cached)
\* and cancel_order_retry for this order.  The result tells where the order is
\* reported, whether cancel_order_retry was called, and the market cache.
ProcessOrder(o, env, cache) ==
    IF StatusUpper(o.status) # "LIVE"
      THEN [report |-> "skip", cancel |-> FALSE, cache |-> cache]
    ELSE IF o.market \notin cache /\ o.lookup = "raise"
      THEN [report |-> "fail", cancel |-> FALSE, cache |-> cache]
    ELSE LET c2 == cache \cup {o.market}
             m == env[o.market]
         IN  IF m.ended = "undated"
               THEN [report |-> "fail", cancel |-> FALSE, cache |-> c2]
             ELSE IF m.ended # "yes" \/ ~m.resolved
               THEN [report |-> "skip", cancel |-> FALSE, cache |-> c2]
             ELSE IF ~OrderIsStale(CancelNow, o)
               THEN [report |-> "skip", cancel |-> FALSE, cache |-> c2]
             ELSE [report |-> IF CancelOrderReturns(o.cancel) THEN "ok" ELSE "fail",
                   cancel |-> TRUE, cache |-> c2]

\* The loop of cancel_stale_orders: acc holds results_ok, results_fail, the
\* ids cancel_order_retry was called with, and the market cache.
RECURSIVE CancelLoop(_, _, _)
CancelLoop(acc, env, orders) ==
    IF orders = <<>> THEN acc
    ELSE LET o == Head(orders)
             r == ProcessOrder(o, env, acc.cache)
         IN  CancelLoop([ok |-> IF r.report = "ok" THEN Append(acc.ok, o.id) ELSE acc.ok,
                         fail |-> IF r.report = "fail" THEN Append(acc.fail, o.id) ELSE acc.fail,
                         cancels |-> IF r.cancel THEN Append(acc.cancels, o.id) ELSE acc.cancels,
                         cache |-> r.cache],
                        env, Tail(orders))

\* cancel_stale_orders(): get_ok is whether get_orders_retry returned.
CancelStaleOrdersOver(get_ok, env, orders) ==
    IF ~get_ok
      THEN [ok |-> <<>>, fail |-> <<"get_orders">>, cancels |-> <<>>, cache |-> {}]
      ELSE CancelLoop([ok |-> <<>>, fail |-> <<>>, cancels |-> <<>>, cache |-> {}],
                      env, orders)

CancelStaleOrders(get_ok, env, orders) ==
    /\ lastOp = NoOp
    /\ lastOp' = [op |-> "cancel_stale", get_ok |-> get_ok, env |-> env, orders |-> orders,
                  result |-> CancelStaleOrdersOver(get_ok, env, orders)]
    /\ UNCHANGED <<storeVars, tradeVars>>

\* Inputs: the open orders of the account and the state of their markets.
OpenOrderShapes ==
    {sh \in [status : {"LIVE", "live", "MATCHED"}, market : {"M1", "M2"},
              created_at : {700, 701}, lookup : {"ok", "raise"},
              cancel : {"ok", "rejected", "raise"}] :
        \* one order stands for all that are not LIVE, one for lower case,
        \* one for those whose cancel is rejected
        /\ sh.status # "LIVE" =>
              (sh.market = "M2" /\ sh.created_at = 700 /\ sh.lookup = "ok" /\ sh.cancel = "ok")
        /\ sh.cancel = "rejected" =>
              (sh.market = "M2" /\ sh.created_at = 700 /\ sh.lookup = "ok")}
WithId(shape, n) ==
    [id |-> n, status |-> shape.status, market |-> shape.market,
     created_at |-> shape.created_at, lookup |-> shape.lookup, cancel |-> shape.cancel]
OpenOrderLists ==
    UNION {{[i \in 1..n |-> WithId(f[i], i)] : f \in [1..n -> OpenOrderShapes]} :
               n \in 0..MaxOpenOrders}
MarketEnvs ==
    {[m \in {"M1", "M2"} |->
        IF m = "M1" THEN [ended |-> st[1], resolved |-> st[2]]
                    ELSE [ended |-> "yes", resolved |-> TRUE]] :
        st \in {x \in {"yes", "no", "undated"} \X BOOLEAN : x[1] = "yes" \/ x[2]}}

\* The scheduler's job runs once per behaviour.
CancelNext ==
    \/ /\ lastOp = NoOp
       /\ \E env \in MarketEnvs, orders \in OpenOrderLists :
             CancelStaleOrders(TRUE, env, orders)
    \/ /\ lastOp = NoOp
       /\ \E env \in MarketEnvs : CancelStaleOrders(FALSE, env, <<>>)

SeqRange(sq) == {sq[i] : i \in 1..Len(sq)}

\* An order of the run that meets the three conditions of a cancel.
Cancellable(o, env) ==
    /\ StatusUpper(o.status) = "LIVE"
    /\ CancelNow - o.created_at >= 300
    /\ env[o.market].ended = "yes"
    /\ env[o.market].resolved

\* Cancels are issued only for LIVE orders at least 300 s old whose market
\* has ended and is resolved.
CancelsOnlyStale ==
    \A i \in 1..Len(lastOp.orders) :
        lastOp.orders[i].id \in SeqRange(lastOp.result.cancels)
            => Cancellable(lastOp.orders[i], lastOp.env)

\* A failure on one order does not keep the later orders from being
\* processed: every order that meets the conditions and whose own processing
\* does not fail is cancelled and reported under ok, wherever it stands.
LaterOrdersProcessed ==
    \A i \in 1..Len(lastOp.orders) :
        LET o == lastOp.orders[i]
        IN  (Cancellable(o, lastOp.env) /\ o.lookup = "ok" /\ o.cancel = "ok")
               => /\ o.id \in SeqRange(lastOp.result.cancels)
                  /\ o.id \in SeqRange(lastOp.result.ok)

\* C22 (as claimed): cancel_stale_orders issues a cancel only for orders that
\* are LIVE, at least 300 s old and of a market both ended and resolved;
\* every other order is neither cancelled nor reported; a failure on one
\* order does not prevent the remaining orders from being processed.
C22_CancelOnlyStale ==
    (lastOp.op = "cancel_stale" /\ lastOp.get_ok) =>
        /\ CancelsOnlyStale
        /\ \A i \in 1..Len(lastOp.orders) :
              ~Cancellable(lastOp.orders[i], lastOp.env)
                 => lastOp.orders[i].id \notin
                       SeqRange(lastOp.result.cancels) \cup SeqRange(lastOp.result.ok)
                           \cup SeqRange(lastOp.result.fail)
        /\ LaterOrdersProcessed

\* C22 (amended): cancels are issued only for orders that are LIVE, at least
\* 300 s old and of a market both ended and resolved; every other order is
\* not cancelled and not reported under ok, an order that is not LIVE is not
\* reported at all, and an order is reported under fail only when processing
\* it raised (its market could not be fetched, the market document has no end
\* date, or the cancel call failed); a failure on one order does not prevent
\* the remaining orders from being processed.
C22_CancelOnlyStaleOrFail ==
    (lastOp.op = "cancel_stale" /\ lastOp.get_ok) =>
        /\ CancelsOnlyStale
        /\ \A i \in 1..Len(lastOp.orders) :
              LET o == lastOp.orders[i]
              IN  /\ ~Cancellable(o, lastOp.env)
                       => o.id \notin SeqRange(lastOp.result.cancels)
                                        \cup SeqRange(lastOp.result.ok)
                  /\ StatusUpper(o.status) # "LIVE"
                       => o.id \notin SeqRange(lastOp.result.fail)
                  /\ o.id \in SeqRange(lastOp.result.fail)
                       => \/ o.lookup = "raise"
                          \/ lastOp.env[o.market].ended = "undated"
                          \/ (Cancellable(o, lastOp.env) /\ o.cancel = "raise")
        /\ LaterOrdersProcessed

\* A run in which the first order fails, the second is cancelled, and an order
\* that does not meet the conditions is absent from the report.
C22_Witness ==
    /\ lastOp.op = "cancel_stale" /\ lastOp.get_ok
    /\ Len(lastOp.orders) = 2
    /\ lastOp.result.fail = <<1>>
    /\ lastOp.result.cancels = <<2>>
    /\ lastOp.result.ok = <<2>>

\* C39 (as claimed): an order whose cancel call the exchange rejects with an
\* API error is reported under fail and not under ok, and no order is
\* reported under both.
C39_RejectedCancelIsFail ==
    (lastOp.op = "cancel_stale" /\ lastOp.get_ok) =>
        \A i \in 1..Len(lastOp.orders) :
            LET o == lastOp.orders[i]
            IN  /\ (o.id \in SeqRange(lastOp.result.cancels) /\ o.cancel = "rejected")
                      => /\ o.id \in SeqRange(lastOp.result.fail)
                         /\ o.id \notin SeqRange(lastOp.result.ok)
                /\ ~(o.id \in SeqRange(lastOp.result.ok)
                        /\ o.id \in SeqRange(lastOp.result.fail))

(***************************************************************************)
(* TradeResolverTask.run                                                   *)
(***************************************************************************)
\* The lengths of the tuples in the fail list cancel_stale_orders returns:
\* ("get_orders", e) when the orders could not be fetched, (id, e, order)
\* for an order whose processing raised.
FailTupleLens(get_ok, res) ==
    IF ~get_ok THEN <<2>> ELSE [i \in 1..Len(res.fail) |-> 3]

\* resolve_orders: `for oid, error, order in res["fail"]` raises ValueError on
\* a tuple that has not three elements.
ResolveOrdersRaises(lens) == \E i \in 1..Len(lens) : lens[i] # 3

\* run(), first await: resolve_orders().
ResolverOrders(get_ok, env, orders) ==
    /\ lastOp = NoOp
    /\ LET res == CancelStaleOrdersOver(get_ok, env, orders)
       IN  lastOp' = [op |-> "resolve_orders", get_ok |-> get_ok, env |-> env,
                      orders |-> orders, result |-> res,
                      raised |-> ResolveOrdersRaises(FailTupleLens(get_ok, res))]
    /\ UNCHANGED <<storeVars, tradeVars>>

\* run(), second await: resolve_positions(), reached when resolve_orders has
\* returned; redeemable is whether a position is redeemed in this run.
ResolverPositions(redeemable, pos) ==
    /\ lastOp.op = "resolve_orders"
    /\ ~lastOp.raised
    /\ IF redeemable THEN ResolvePositionStore(pos) ELSE UNCHANGED tradeVars
    /\ lastOp' = [op |-> "resolve_positions", get_ok |-> lastOp.get_ok,
                  cancel_failed |-> lastOp.result.fail # <<>>]
    /\ UNCHANGED storeVars

ResolverNext ==
    \/ /\ lastOp = NoOp
       /\ \E env \in MarketEnvs, orders \in OpenOrderLists : ResolverOrders(TRUE, env, orders)
    \/ /\ lastOp = NoOp
       /\ \E env \in MarketEnvs : ResolverOrders(FALSE, env, <<>>)
    \/ \E redeemable \in BOOLEAN, pos \in Positions : ResolverPositions(redeemable, pos)

\* C40 (as claimed): resolve_orders completes without raising, also when
\* fetching the open orders fails or a cancel fails, so that run() goes on
\* to resolve_positions.
C40_RunReachesPositions == lastOp.op = "resolve_orders" => ~lastOp.raised

(***************************************************************************)
(* OrdersSubscriber._run and TradesSubscriber._run                         *)
(***************************************************************************)
Subscribers == {"orders", "trades"}

\* Backoffs are tenths of a second: 0.5 s initial, 10.0 s cap.
SUB_BACKOFF_INITIAL == 5
SUB_BACKOFF_CAP == 100

SubInit ==
    /\ sub_pc = [s \in Subscribers |-> "listening"]
    /\ sub_backoff = [s \in Subscribers |-> SUB_BACKOFF_INITIAL]
    /\ sub_clean = [s \in Subscribers |-> FALSE]

\* The body of "async for": the service handles one event and returns.
SubHandled(s) ==
    /\ sub_pc[s] = "listening"
    /\ sub_clean' = [sub_clean EXCEPT ![s] = TRUE]
    /\ lastOp' = [op |-> "sub_handled", sub |-> s]
    /\ UNCHANGED <<sub_pc, sub_backoff>>

\* subscribe_events() or the service raises an Exception: the loop logs and
\* starts asyncio.sleep(backoff).
SubFail(s) ==
    /\ sub_pc[s] = "listening"
    /\ sub_pc' = [sub_pc EXCEPT ![s] = "sleeping"]
    /\ sub_clean' = [sub_clean EXCEPT ![s] = FALSE]
    /\ lastOp' = [op |-> "sub_fail", sub |-> s, sleep |-> sub_backoff[s],
                  after_clean |-> sub_clean[s]]
    /\ UNCHANGED sub_backoff

\* The sleep returns: the next backoff doubles up to the cap and the loop
\* subscribes again.
SubWake(s) ==
    /\ sub_pc[s] = "sleeping"
    /\ sub_pc' = [sub_pc EXCEPT ![s] = "listening"]
    /\ sub_backoff' = [sub_backoff EXCEPT ![s] = Min(sub_backoff[s] * 2, SUB_BACKOFF_CAP)]
    /\ lastOp' = [op |-> "sub_wake", sub |-> s]
    /\ UNCHANGED sub_clean

\* The generator of subscribe_events ends (listen() returns): the backoff is
\* reset and the loop subscribes again.
SubStreamEnd(s) ==
    /\ sub_pc[s] = "listening"
    /\ sub_backoff' = [sub_backoff EXCEPT ![s] = SUB_BACKOFF_INITIAL]
    /\ lastOp' = [op |-> "sub_stream_end", sub |-> s]
    /\ UNCHANGED <<sub_pc, sub_clean>>

\* stop() cancels the task: CancelledError breaks the loop, or leaves the
\* except clause when it arrives during the sleep.
SubCancel(s) ==
    /\ sub_pc[s] # "done"
    /\ sub_pc' = [sub_pc EXCEPT ![s] = "done"]
    /\ lastOp' = [op |-> "sub_cancel", sub |-> s]
    /\ UNCHANGED <<sub_backoff, sub_clean>>

SubNext ==
    \/ \E s \in Subscribers : SubHandled(s)
    \/ \E s \in Subscribers : SubFail(s)
    \/ \E s \in Subscribers : SubWake(s)
    \/ \E s \in Subscribers : SubStreamEnd(s)
    \/ \E s \in Subscribers : SubCancel(s)

\* C24 (as claimed): a subscriber loop survives every exception and ends only
\* on cancellation; after a failure it sleeps for the backoff and subscribes
\* again; the backoff doubles per failure and never exceeds 10 s; after a
\* clean iteration (an event handled without error) it is back at its initial
\* value, so that the next failure sleeps 0.5 s.
C24_BackoffResetOnClean ==
    /\ \A s \in Subscribers : sub_backoff[s] <= 100
    /\ (lastOp.op = "sub_fail" /\ lastOp.after_clean) => lastOp.sleep = 5
    /\ lastOp.op = "sub_fail" => sub_pc[lastOp.sub] = "sleeping"

(***************************************************************************)
(* RedisSlugStore, SlugsSubscriber and the /slugs routes                   *)
(***************************************************************************)
\* Bound: the number of add_slug / remove_slug calls.
MaxSlugOps == 3

Slugs == {"s1", "s2"}
SlugOrder == <<"s1", "s2">>

\* sorted(S) for a set of slugs.
SortedSlugs(S) == SelectSeq(SlugOrder, LAMBDA x : x \in S)

SlugInit ==
    /\ slug_store = {}
    /\ slugEvents = <<>>
    /\ mgr_slugs = {}
    /\ mgr_pc = "created"
    /\ ws_updates = <<>>
    /\ slug_ops = 0

\* _publish on hunter:slugs:events: Redis delivers to the subscribers of
\* the moment; the events loop subscribes once its task runs.
PublishSlug(q, msg) == IF mgr_pc = "running" THEN Append(q, msg) ELSE q

\* RedisSlugStore.add(slug): SADD, an event when the slug was added.
SlugStoreAdd(slug) ==
    /\ slug_store' = slug_store \cup {slug}
    /\ slugEvents' = IF slug \notin slug_store
                       THEN PublishSlug(slugEvents, [action |-> "add", slug |-> slug])
                       ELSE slugEvents

\* RedisSlugStore.remove(slug): SREM, an event when the slug was removed.
SlugStoreRemove(slug) ==
    /\ slug_store' = slug_store \ {slug}
    /\ slugEvents' = IF slug \in slug_store
                       THEN PublishSlug(slugEvents, [action |-> "remove", slug |-> slug])
                       ELSE slugEvents

\* SlugsSubscriber.get_slugs() as the routes return it: sorted(list(...)).
GetSlugs == SortedSlugs(mgr_slugs)

\* POST /slugs: add_slug(slug), then the reply with get_slugs().
ApiAddSlug(slug) ==
    /\ slug_ops < MaxSlugOps
    /\ slug_ops' = slug_ops + 1
    /\ SlugStoreAdd(slug)
    /\ lastOp' = [op |-> "add_slug", slug |-> slug, slugs |-> GetSlugs,
                  store_before |-> slug_store, events_before |-> slugEvents]
    /\ UNCHANGED <<mgr_slugs, mgr_pc, ws_updates, wsVars>>

\* DELETE /slugs/{slug}: remove_slug(slug), then the reply with get_slugs().
ApiDeleteSlug(slug) ==
    /\ slug_ops < MaxSlugOps
    /\ slug_ops' = slug_ops + 1
    /\ SlugStoreRemove(slug)
    /\ lastOp' = [op |-> "delete_slug", slug |-> slug, slugs |-> GetSlugs,
                  store_before |-> slug_store, events_before |-> slugEvents]
    /\ UNCHANGED <<mgr_slugs, mgr_pc, ws_updates, wsVars>>

\* _apply_local_slugs(new_slugs): nothing when the set equals the applied
\* one; else the set is taken and the WS client updated with the sorted list.
ApplyLocalSlugs(new_slugs, gamma_up) ==
    IF new_slugs = mgr_slugs
      THEN /\ lastOp' = [op |-> "apply_local_slugs", changed |-> FALSE]
           /\ UNCHANGED <<mgr_slugs, ws_updates, wsVars>>
      ELSE /\ mgr_slugs' = new_slugs
           /\ ws_updates' = Append(ws_updates, SortedSlugs(new_slugs))
           /\ UpdateSlugs(SortedSlugs(new_slugs), gamma_up)

\* start(): the stored slugs are listed and applied, the WS client started,
\* the events task created.
MgrStart(gamma_up) ==
    /\ mgr_pc = "created"
    /\ mgr_pc' = "started"
    /\ ApplyLocalSlugs(slug_store, gamma_up)
    /\ UNCHANGED <<slug_store, slugEvents, slug_ops>>

\* The events task runs up to its subscription.
MgrSubscribe ==
    /\ mgr_pc = "started"
    /\ mgr_pc' = "running"
    /\ lastOp' = [op |-> "slugs_subscribed"]
    /\ UNCHANGED <<slug_store, slugEvents, mgr_slugs, ws_updates, slug_ops, wsVars>>

\* One iteration of _events_loop: the store is listed and applied.
MgrEvent(gamma_up) ==
    /\ mgr_pc = "running"
    /\ slugEvents # <<>>
    /\ slugEvents' = Tail(slugEvents)
    /\ ApplyLocalSlugs(slug_store, gamma_up)
    /\ UNCHANGED <<slug_store, mgr_pc, slug_ops>>

SlugNext ==
    \/ \E slug \in Slugs : ApiAddSlug(slug)
    \/ \E slug \in Slugs : ApiDeleteSlug(slug)
    \/ \E gamma_up \in BOOLEAN : MgrStart(gamma_up)
    \/ MgrSubscribe
    \/ \E gamma_up \in BOOLEAN : MgrEvent(gamma_up)

\* C25 (as claimed): the slug manager pushes the full sorted slug list to the
\* WS client on start, also when the store is empty (an update with the empty
\* list), and thereafter exactly when the store's set differs from the
\* applied set: every push carries a set different from the one pushed
\* before, the last push is the applied set, and once the events are consumed
\* the applied set is the store's.
C25_PushOnStartAndChange ==
    /\ mgr_pc # "created" => ws_updates # <<>>
    /\ \A i \in 1..(Len(ws_updates) - 1) : ws_updates[i] # ws_updates[i + 1]
    /\ ws_updates # <<>> => ws_updates[Len(ws_updates)] = SortedSlugs(mgr_slugs)
    /\ (mgr_pc = "running" /\ slugEvents = <<>>) => mgr_slugs = slug_store

\* C26 (as claimed): when add_slug(s) returns, the list returned to the caller
\* contains s, and adding a slug already present changes nothing (no event,
\* one copy); when remove_slug(s) returns, the returned list does not contain
\* s, and removing an absent slug changes nothing.
C26_ReadYourWrites ==
    /\ lastOp.op = "add_slug" =>
          /\ lastOp.slug \in {lastOp.slugs[i] : i \in 1..Len(lastOp.slugs)}
          /\ lastOp.slug \in slug_store
          /\ lastOp.slug \in lastOp.store_before
                => (slug_store = lastOp.store_before /\ slugEvents = lastOp.events_before)
    /\ lastOp.op = "delete_slug" =>
          /\ lastOp.slug \notin {lastOp.slugs[i] : i \in 1..Len(lastOp.slugs)}
          /\ lastOp.slug \notin slug_store
          /\ lastOp.slug \notin lastOp.store_before
                => (slug_store = lastOp.store_before /\ slugEvents = lastOp.events_before)

\* C35 (as claimed): once no add or remove is under way and every published
\* event has been consumed by the running events loop, the manager's slug
\* list is the store's, also when a slug was added or removed between the
\* list() of start() and the subscription of the events loop.
C35_ConvergesToStore ==
    (mgr_pc = "running" /\ slugEvents = <<>>) => GetSlugs = SortedSlugs(slug_store)

Init == ActorInit /\ StoreInit /\ TradeInit /\ KalmanInit /\ PriceInit /\ WsInit /\ RouterInit /\ SubInit /\ SlugInit /\ StopInit
SpecActor == Init /\ [][ActorNext /\ UNCHANGED <<storeVars, lastOp, tradeVars, feedVars, wsVars, routerVars, auxVars>>]_vars
\* The event loop runs every ready step of the actor task, and a dispatch
\* returns; posts are up to the ingester.
actorOthers == <<storeVars, lastOp, tradeVars, feedVars, wsVars, routerVars, auxVars>>
SpecActorFair ==
    /\ SpecActor
    /\ WF_vars(ActorWake /\ UNCHANGED actorOthers)
    /\ WF_vars(ActorTick /\ UNCHANGED actorOthers)
    /\ WF_vars(ActorDispatchDone /\ UNCHANGED actorOthers)
SpecStore == Init /\ [][StoreNext /\ UNCHANGED <<actorVars, tradeVars, feedVars, wsVars, routerVars, auxVars>>]_vars
SpecCleanup == Init /\ [][CleanupNext /\ UNCHANGED <<actorVars, tradeVars, feedVars, wsVars, routerVars, auxVars>>]_vars
SpecOrders == Init /\ [][OrdersNext /\ UNCHANGED <<actorVars, feedVars, wsVars, routerVars, auxVars>>]_vars
\* The subscriber handles every message it has received, and subscribes
\* again after its backoff sleep.
ordersOthers == <<tradeVars, actorVars, feedVars, wsVars, routerVars, auxVars>>
SpecOrdersFair ==
    /\ SpecOrders
    /\ WF_vars((\E success \in BOOLEAN : ExecuteOrder(success)) /\ UNCHANGED ordersOthers)
    /\ WF_vars(OrdersResubscribe /\ UNCHANGED ordersOthers)
SpecExit == Init /\ [][ExitNext /\ UNCHANGED <<actorVars, feedVars, wsVars, routerVars, auxVars>>]_vars
SpecExec == Init /\ [][ExecNext /\ UNCHANGED <<actorVars, tradeVars, feedVars, wsVars, routerVars, auxVars>>]_vars
SpecCancel == Init /\ [][CancelNext /\ UNCHANGED <<actorVars, feedVars, wsVars, routerVars, auxVars>>]_vars
SpecResolver == Init /\ [][ResolverNext /\ UNCHANGED <<actorVars, feedVars, wsVars, routerVars, auxVars>>]_vars
SpecMerge == Init /\ [][MergeNext /\ UNCHANGED <<actorVars, storeVars, feedVars, wsVars, routerVars, auxVars>>]_vars
SpecSub == Init /\ [][SubNext /\ UNCHANGED <<actorVars, storeVars, tradeVars, feedVars, wsVars, routerVars, slugVars, stopVars>>]_vars
SpecSlugs == Init /\ [][SlugNext /\ UNCHANGED <<actorVars, storeVars, tradeVars, feedVars, routerVars, subVars, stopVars>>]_vars
SpecStop == Init /\ [][StopNext /\ UNCHANGED <<storeVars, tradeVars, feedVars, routerVars, subVars, slugVars>>]_vars
SpecScan == Init /\ [][ScanNext /\ UNCHANGED <<actorVars, storeVars, feedVars, wsVars, routerVars, auxVars>>]_vars
SpecTrades == Init /\ [][TradeNext /\ UNCHANGED <<actorVars, storeVars, feedVars, wsVars, routerVars, auxVars>>]_vars
SpecTrend == Init /\ [][TrendNext /\ UNCHANGED <<actorVars, storeVars, tradeVars, price_map, emitted, wsVars, routerVars, auxVars>>]_vars
SpecBook == Init /\ [][BookNext /\ UNCHANGED <<actorVars, tradeVars, wsVars, routerVars, auxVars>>]_vars
SpecPrices == Init /\ [][PricesNext /\ UNCHANGED <<actorVars, tradeVars, wsVars, routerVars, auxVars>>]_vars
wsOthers == <<actorVars, storeVars, tradeVars, feedVars, routerVars, auxVars>>
SpecWs == Init /\ [][WsNext /\ UNCHANGED wsOthers]_vars
\* The event loop runs every ready step of _run (weak fairness), and a
\* connect that is attempted again and again succeeds, subscribe frame
\* included, at some attempt (strong fairness).
SpecWsFair ==
    /\ SpecWs
    /\ WF_vars(PumpRestart /\ UNCHANGED wsOthers)
    /\ WF_vars(PumpError /\ UNCHANGED wsOthers)
    /\ WF_vars(RunReturn /\ UNCHANGED wsOthers)
    /\ WF_vars(RunWake /\ UNCHANGED wsOthers)
    /\ WF_vars((ConnectFail \/ \E send_ok \in BOOLEAN : Connect(send_ok)) /\ UNCHANGED wsOthers)
    /\ SF_vars(Connect(TRUE) /\ UNCHANGED wsOthers)
routerOthers == <<storeVars, lastOp, tradeVars, feedVars, wsVars, auxVars>>
SpecRouter == Init /\ [][RouterNext /\ UNCHANGED routerOthers]_vars
\* The event loop runs every ready step of the actor task; posts are up to
\* the ingester.
SpecRouterFair ==
    /\ SpecRouter
    /\ WF_vars(ActorWake /\ UNCHANGED <<routerVars, routerOthers>>)
    /\ WF_vars(RouterTick /\ UNCHANGED routerOthers)
    /\ WF_vars((\E outcome \in HandlerOutcomes : RouterStep(outcome)) /\ UNCHANGED routerOthers)
    /\ WF_vars(RouterReturn /\ UNCHANGED routerOthers)
====
